---------------------------- MODULE Spec2Model ----------------------------
(***************************************************************************)
(* Subscription lifecycle engine of the Telegram CRM bot:                  *)
(*   - payment binding cookie (app/admin/app.py, _sign_payment_token ..    *)
(*     _parse_and_verify_payment_cookie),                                  *)
(*   - payment page and the success / fail redirects of the gateway,       *)
(*   - admin subscription operations,                                      *)
(*   - the hourly sweep of app/core/subscription_manager.py.               *)
(*                                                                         *)
(* Time is in whole seconds.  Strings that are parsed by the code (the     *)
(* cookie) are sequences of one-character strings, so that split(), int()  *)
(* and str() are computed and not assumed.                                 *)
(***************************************************************************)
EXTENDS Integers, Sequences, FiniteSets, Bags, TLC

\* None, for an optional string and for an optional datetime.  A string of
\* the model is a sequence of single characters, so the one-element
\* sequence below is none of them; times are positive.
NoStr  == << "None" >>
NoTime == 0 - 1

(***************************************************************************)
(* Bounds of the model.                                                    *)
(***************************************************************************)
MaxPayments  == 2   \* payment pages rendered
MaxAdminOps  == 1   \* admin operations beside the payment flow
MaxTicks     == 1   \* clock advances beside the payment flow
MaxLedgerOps == 2   \* admin operations beside the sweep
MaxSweepTicks == 2  \* clock advances beside the sweep
MaxSweeps    == 2   \* sweeps of the background loop
MaxLedgerPayments == 1   \* payment pages beside the admin operations
MaxLedgerSweeps   == 1   \* sweeps beside the payment flow
MaxSchedulerTicks          == 3
MaxSettingsOps == 2 \* settings updates, in the payment-page specification
UnknownUser  == 3   \* a telegram_id with no users row

(***************************************************************************)
(* Program constants.                                                      *)
(***************************************************************************)
Day                        == 86400
COOKIE_MAX_AGE             == 3600
CLOCK_SKEW                 == 60
SUBSCRIPTION_DURATION_DAYS == 30
SUBSCRIPTION_PRICE         == 999
SLEEP_SECONDS              == 3600

\* users.id of the registered users (a user's telegram_id is taken to be
\* the same number)
Users == { 1, 2 }

(***************************************************************************)
(* Strings as sequences of characters.                                     *)
(***************************************************************************)
Dot == "."

DigitChars == <<"0", "1", "2", "3", "4", "5", "6", "7", "8", "9">>

IsDigit(c) == \E i \in 1 .. 10 : DigitChars[i] = c

DigitVal(c) == (CHOOSE i \in 1 .. 10 : DigitChars[i] = c) - 1

RECURSIVE NatToStr(_)
NatToStr(n) ==
    IF n < 10 THEN << DigitChars[n + 1] >>
    ELSE NatToStr(n \div 10) \o << DigitChars[(n % 10) + 1] >>

\* str(int)
PyStr(n) == IF n < 0 THEN << "-" >> \o NatToStr(0 - n) ELSE NatToStr(n)

RECURSIVE DigitsToNat(_, _)
DigitsToNat(s, acc) ==
    IF s = << >> THEN acc
    ELSE DigitsToNat(Tail(s), acc * 10 + DigitVal(Head(s)))

\* int(str): an optional sign followed by at least one digit; anything else
\* is a ValueError (PyIntOk is false).  The characters int() also
\* tolerates (blanks, underscores) are not in the alphabet of the model.
PyIntBody(s) == IF s # << >> /\ Head(s) \in {"+", "-"} THEN Tail(s) ELSE s

PyIntOk(s) ==
    /\ PyIntBody(s) # << >>
    /\ \A i \in 1 .. Len(PyIntBody(s)) : IsDigit(PyIntBody(s)[i])

PyInt(s) ==
    IF s # << >> /\ Head(s) = "-"
    THEN 0 - DigitsToNat(PyIntBody(s), 0)
    ELSE DigitsToNat(PyIntBody(s), 0)

\* str.split("."): the list of the maximal dot-free pieces, empty ones
\* included; always at least one piece.
DotPositions(s) == { i \in 1 .. Len(s) : s[i] = Dot }

PySplit(s) ==
    LET dots  == DotPositions(s)
        n     == Cardinality(dots)
        \* position of the k-th dot; 0 before the first, Len + 1 after the last
        at(k) == IF k = 0 THEN 0
                 ELSE IF k = n + 1 THEN Len(s) + 1
                 ELSE CHOOSE i \in dots : Cardinality({ j \in dots : j < i }) = k - 1
    IN  [k \in 1 .. n + 1 |-> SubSeq(s, at(k - 1) + 1, at(k) - 1)]

(***************************************************************************)
(* HMAC helpers (app/admin/app.py:58-87).                                  *)
(*                                                                         *)
(* HMAC-SHA256 under SECRET_KEY followed by unpadded base64url is modelled *)
(* as a deterministic tag of the message: "h", then the message with every *)
(* dot replaced by "~" (base64url text never contains a dot).  A party     *)
(* that does not hold the key cannot compute it; the requests of the model *)
(* therefore carry either a signature produced by the server or a foreign  *)
(* one.                                                                    *)
(***************************************************************************)
_sign_payment_token(message) ==
    << "h" >> \o [i \in 1 .. Len(message) |->
                    IF message[i] = Dot THEN "~" ELSE message[i]]

_make_payment_cookie_value(payment_id, time_now) ==
    LET issued_at == PyStr(time_now)
        payload   == payment_id \o << Dot >> \o issued_at
        sig       == _sign_payment_token(payload)
    IN  payload \o << Dot >> \o sig

\* The check with the age test off by one: a cookie expires a second early.
_parse_and_verify_payment_cookie_strict(cookie_value, time_now) ==
    IF cookie_value = NoStr THEN NoStr
    ELSE
    LET parts == PySplit(cookie_value)
    IN  IF Len(parts) # 3 THEN NoStr
        ELSE
        LET payment_id    == parts[1]
            issued_at_str == parts[2]
            sig           == parts[3]
            payload       == payment_id \o << Dot >> \o issued_at_str
            expected_sig  == _sign_payment_token(payload)
            issued_at     == PyInt(issued_at_str)
        IN  IF sig # expected_sig THEN NoStr
            ELSE IF ~PyIntOk(issued_at_str) THEN NoStr
            ELSE IF time_now - issued_at >= COOKIE_MAX_AGE
                    \/ issued_at > time_now + CLOCK_SKEW THEN NoStr
            ELSE payment_id

_parse_and_verify_payment_cookie(cookie_value, time_now) ==
    IF cookie_value = NoStr THEN NoStr
    ELSE
    LET parts == PySplit(cookie_value)
    IN  IF Len(parts) # 3 THEN NoStr
        ELSE
        LET payment_id    == parts[1]
            issued_at_str == parts[2]
            sig           == parts[3]
            payload       == payment_id \o << Dot >> \o issued_at_str
            expected_sig  == _sign_payment_token(payload)
            issued_at     == PyInt(issued_at_str)
        IN  IF sig # expected_sig THEN NoStr
            ELSE IF ~PyIntOk(issued_at_str) THEN NoStr
            ELSE IF time_now - issued_at > COOKIE_MAX_AGE
                    \/ issued_at > time_now + CLOCK_SKEW THEN NoStr
            ELSE payment_id


(***************************************************************************)
(* State.                                                                  *)
(***************************************************************************)
VARIABLES
    now,            \* the wall clock, seconds
    ticks,          \* how often the clock has advanced (bounded)
    dbNaive,        \* DateTime columns are read back without tzinfo
    users,          \* table users: paid-channel flags of each user row
    payments,       \* table payments, row id = index
    subscriptions,  \* table subscriptions, row id = index
    jar,            \* rk_pay cookie values handed out by /pay
    req,            \* the /robokassa/success request in progress
    waiting,        \* requests suspended at their await of the grant
    response,       \* the last HTTP response of a modelled endpoint
    sweep,          \* the background loop of run_subscription_checker
    adminOps,       \* how many admin operations have run (bounded)
    grantCalls,     \* history: add_user_to_paid_channel calls per user
    reconciled,     \* history: payments whose subscription update committed
    prevRevoked,    \* history: rows a sweep deactivated, untouched since
    vin,            \* text given to a check run on its own (cookie, phone)
    vout,           \* its result
    bot_settings,   \* table bot_settings: key -> value
    profiles,       \* table users: registration columns, by telegram_id
    conv,           \* ConversationHandler state of each Telegram user
    group_conv,     \* the same, for the user's key in a second chat
    channel_memberships, \* table channel_memberships, row id = index
    user_data_temp, \* the bot's in-memory scratch map, keyed by user id
    reply           \* the last message the bot sent or endpoint result

\* the variables of the payment flow, the ledger and the sweep
payvars == << now, ticks, dbNaive, users, payments, subscriptions, jar, req, waiting,
              response, sweep, adminOps, grantCalls, reconciled, prevRevoked,
              vin, vout, waiting >>

\* the variables of the bot conversation and of the settings table
botvars == << bot_settings, profiles, conv, group_conv, channel_memberships,
             user_data_temp, reply >>

vars == << payvars, botvars >>

StartTime == 100000

HexChars == << "a", "b", "c", "d", "e", "f" >>

SeqElems(s) == { s[i] : i \in 1 .. Len(s) }

IdleReq == [pc |-> "idle", pay |-> 0, now |-> 0]

NoResponse == [handler |-> "none", kind |-> "none", cookie_deleted |-> FALSE]

NoReply == [user |-> 0, kind |-> "none"]

\* No bot_settings row, no registered Telegram user, no conversation and an
\* empty scratch map: the database after create_tables and the bot after
\* TelegramBot.__init__.
BotIdle ==
    /\ bot_settings = << >>
    /\ profiles = << >>
    /\ conv = [u \in Users |-> "END"]
    /\ group_conv = [u \in Users |-> "END"]
    /\ channel_memberships = << >>
    /\ user_data_temp = << >>
    /\ reply = NoReply

IdleSweep == [pc |-> "idle", now |-> 0, selected |-> << >>, idx |-> 1,
              removed_count |-> 0, dirty |-> {}, calls |-> << >>,
              notices |-> << >>, reminders |-> {}, wake |-> StartTime,
              count |-> 0, sent |-> << >>, prev_sent |-> << >>,
              failed |-> {}, prev_failed |-> {}]

Init ==
    /\ now = StartTime
    /\ ticks = 0
    /\ dbNaive \in BOOLEAN
    /\ users = [u \in Users |->
                  [is_in_paid_channel |-> FALSE, paid_channel_join_date |-> NoTime]]
    /\ payments = << >>
    /\ subscriptions = << >>
    /\ jar = {}
    /\ req = IdleReq
    /\ response = NoResponse
    /\ sweep = IdleSweep
    /\ grantCalls = [u \in Users |-> 0]
    /\ adminOps = 0
    /\ reconciled = {}
    /\ prevRevoked = {}
    /\ vin = NoStr
    /\ vout = << "unset" >>
    /\ waiting = {}
    /\ BotIdle

(***************************************************************************)
(* Python ordering of a stored datetime against datetime.now(timezone.utc).*)
(* A Column(DateTime) value read back from the database carries no tzinfo  *)
(* on the default SQLite backend (Subscription.check_active repairs        *)
(* exactly that case before it compares); ordering a naive against an      *)
(* aware datetime raises TypeError.  A backend that returns aware values   *)
(* orders them as numbers.                                                 *)
(***************************************************************************)
StoredAfter(stored, aware) ==
    IF dbNaive THEN "TypeError"
    ELSE IF stored > aware THEN "true" ELSE "false"

EventLoopFree == req.pc # "reconcile"

(***************************************************************************)
(* The clock.                                                              *)
(***************************************************************************)
TickSteps == { COOKIE_MAX_AGE \div 2, 31 * Day }

Tick ==
    /\ EventLoopFree
    /\ \E d \in TickSteps : now' = now + d
    /\ ticks' = ticks + 1
    /\ UNCHANGED << dbNaive, adminOps, users, payments, subscriptions, jar, req, response, waiting,
                    sweep, grantCalls, reconciled, vin, vout, waiting >>

(***************************************************************************)
(* The settings table (app/admin/app.py:1050-1079, 1311-1351).  A JSON     *)
(* number of the request body is a record: ten times its value, whether    *)
(* it was written as a float, and whether the key was missing (None).      *)
(***************************************************************************)
JsonNone == [tenths |-> 0, is_float |-> FALSE, is_none |-> TRUE]

JsonInt(n) == [tenths |-> n * 10, is_float |-> FALSE, is_none |-> FALSE]

JsonFloat(t) == [tenths |-> t, is_float |-> TRUE, is_none |-> FALSE]

\* str(number): "1500" for the int 1500, "99.5" for the float 99.5 and
\* "1500.0" for the float 1500.0
PyStrNumber(x) ==
    IF x.is_float
    THEN NatToStr(x.tenths \div 10) \o << Dot >> \o NatToStr(x.tenths % 10)
    ELSE PyStr(x.tenths \div 10)

get_setting_value(key, default) ==
    IF key \in DOMAIN bot_settings THEN bot_settings[key] ELSE default

set_setting_value(key, value) ==
    bot_settings' = [k \in DOMAIN bot_settings \cup { key } |->
                       IF k = key THEN value ELSE bot_settings[k]]

\* prices an administrator may post: none, a negative one, whole numbers
\* of roubles, and prices with kopecks
PriceBodies ==
    { JsonNone, JsonInt(0 - 1), JsonInt(0), JsonInt(500), JsonInt(1500),
      JsonFloat(995), JsonFloat(15000) }

update_subscription_settings(subscription_price) ==
    /\ EventLoopFree
    /\ IF ~subscription_price.is_none /\ subscription_price.tenths < 0
       THEN /\ reply' = [user |-> 0, kind |-> "http400"]
            /\ UNCHANGED bot_settings
       ELSE /\ IF ~subscription_price.is_none
               THEN set_setting_value("subscription_price",
                                      PyStrNumber(subscription_price))
               ELSE UNCHANGED bot_settings
            /\ reply' = [user |-> 0, kind |-> "settings_updated"]
    /\ adminOps' = adminOps + 1
    /\ UNCHANGED << now, ticks, dbNaive, users, payments, subscriptions, jar, req,
                    response, sweep, grantCalls, reconciled, vin, vout, waiting >>
    /\ UNCHANGED << profiles, conv, group_conv, channel_memberships, user_data_temp >>

(***************************************************************************)
(* GET /pay (app/admin/app.py:1098-1163).                                  *)
(***************************************************************************)
\* app.py:1110-1114: the stored price when int() accepts it, else the
\* default price
ConfiguredPrice ==
    LET price_str == get_setting_value("subscription_price",
                                       PyStr(SUBSCRIPTION_PRICE))
    IN  IF PyIntOk(price_str) THEN PyInt(price_str) ELSE SUBSCRIPTION_PRICE

NewPaymentId == << "O", "R", "D", "-", HexChars[Len(payments) + 1] >>

payment_page(user_id) ==
    /\ EventLoopFree
    /\ IF user_id \notin DOMAIN users
       THEN /\ response' = [handler |-> "pay", kind |-> "http404",
                            cookie_deleted |-> FALSE]
            /\ UNCHANGED << payments, jar >>
       ELSE LET payment == [user_id      |-> user_id,
                            payment_id   |-> NewPaymentId,
                            amount       |-> ConfiguredPrice * 100,
                            currency     |-> "RUB",
                            status       |-> "pending",
                            created_at   |-> now,
                            completed_at |-> NoTime]
                cookie_value == _make_payment_cookie_value(NewPaymentId, now)
            IN  /\ payments' = Append(payments, payment)
                /\ jar' = jar \cup { cookie_value }
                /\ UNCHANGED response
    /\ UNCHANGED << now, ticks, dbNaive, adminOps, users, subscriptions, req, sweep,
                    grantCalls, reconciled, vin, vout, waiting >>

(***************************************************************************)
(* What a browser may send as rk_pay: nothing, a cookie it was given, or a *)
(* cookie it was given with a part replaced (a later issued_at, another    *)
(* payment's id, another cookie's signature, a made-up signature), or      *)
(* text that is no cookie at all.                                          *)
(***************************************************************************)
Tampered ==
    { LET p == PySplit(a)
      IN  p[1] \o << Dot >> \o PyStr(now) \o << Dot >> \o p[3] : a \in jar }
    \cup { LET p == PySplit(a)
           IN  PySplit(b)[1] \o << Dot >> \o p[2] \o << Dot >> \o p[3]
             : a \in jar, b \in jar }

RequestCookies == { NoStr, << "x" >> } \cup jar \cup Tampered

\* `if not payment_id`: None and the empty string are both falsy.
Truthy(payment_id) == payment_id # NoStr /\ payment_id # << >>

\* The lookup without its status filter, and the lookup without its
\* payment_id filter.
PendingPaymentIgnoringStatus(payment_id, t) ==
    LET found == { i \in 1 .. Len(payments) :
                     /\ payments[i].payment_id = payment_id
                     /\ payments[i].created_at >= t - COOKIE_MAX_AGE }
    IN  IF found = {} THEN 0
        ELSE CHOOSE i \in found :
               \A j \in found : payments[i].created_at >= payments[j].created_at

PendingPaymentAnyId(payment_id, t) ==
    LET found == { i \in 1 .. Len(payments) :
                     /\ payments[i].status = "pending"
                     /\ payments[i].created_at >= t - COOKIE_MAX_AGE }
    IN  IF found = {} THEN 0
        ELSE CHOOSE i \in found :
               \A j \in found : payments[i].created_at >= payments[j].created_at

\* db.query(Payment).filter(payment_id ==, status == "pending",
\*   created_at >= now - 60 min).order_by(created_at.desc()).first()
PendingPayment(payment_id, t) ==
    LET found == { i \in 1 .. Len(payments) :
                     /\ payments[i].payment_id = payment_id
                     /\ payments[i].status = "pending"
                     /\ payments[i].created_at >= t - COOKIE_MAX_AGE }
    IN  IF found = {} THEN 0
        ELSE CHOOSE i \in found :
               \A j \in found : payments[i].created_at >= payments[j].created_at

(***************************************************************************)
(* GET /robokassa/success (app/admin/app.py:1166-1266), in three steps:    *)
(* up to the first commit, up to the second commit, and the channel grant. *)
(* The handler runs on the event loop of the admin thread and gives it up  *)
(* only at the awaits of the grant; the sweep runs in a thread of its own. *)
(***************************************************************************)
success_begin(cookie_value) ==
    /\ req.pc = "idle"
    /\ LET payment_id == _parse_and_verify_payment_cookie(cookie_value, now)
           payment    == IF Truthy(payment_id)
                         THEN PendingPayment(payment_id, now) ELSE 0
       IN  IF ~Truthy(payment_id)
           THEN /\ response' = [handler |-> "success", kind |-> "session_expired",
                                cookie_deleted |-> TRUE]
                /\ UNCHANGED << payments, req >>
           ELSE IF payment = 0
           THEN /\ response' = [handler |-> "success", kind |-> "not_found",
                                cookie_deleted |-> TRUE]
                /\ UNCHANGED << payments, req >>
           ELSE /\ payments' = [payments EXCEPT ![payment].status = "success",
                                                ![payment].completed_at = now]
                /\ req' = [pc |-> "reconcile", pay |-> payment, now |-> now]
                /\ UNCHANGED response
    /\ UNCHANGED << now, ticks, dbNaive, adminOps, users, subscriptions, jar, sweep,
                    grantCalls, reconciled, vin, vout, waiting >>

\* db.query(Subscription).filter(user_id ==).first(): no ORDER BY, so any
\* of the user's rows may come first.
SubscriptionsOf(user_id) ==
    { s \in 1 .. Len(subscriptions) : subscriptions[s].user_id = user_id }

Duration == SUBSCRIPTION_DURATION_DAYS * Day

NewSubscription(user_id, t, amount) ==
    [user_id        |-> user_id,
     start_date     |-> t,
     end_date       |-> t + Duration,
     is_active      |-> TRUE,
     auto_renewal   |-> FALSE,
     payment_amount |-> amount]

\* Lines 1223-1240 for an existing row.
ReconciledRow(row, t) ==
    IF StoredAfter(row.end_date, t) = "true"
    THEN [row EXCEPT !.end_date = row.end_date + Duration, !.is_active = TRUE]
    ELSE [row EXCEPT !.start_date = t, !.end_date = t + Duration,
                     !.is_active = TRUE]

success_reconcile ==
    /\ req.pc = "reconcile"
    /\ LET payment == payments[req.pay]
           user_id == payment.user_id
           mine    == SubscriptionsOf(user_id)
       IN  IF user_id \notin DOMAIN users
           THEN \* `if user:` is false: nothing to reconcile, normal response
                /\ response' = [handler |-> "success", kind |-> "ok",
                                cookie_deleted |-> TRUE]
                /\ req' = IdleReq
                /\ UNCHANGED << subscriptions, reconciled >>
           ELSE IF mine = {}
           THEN /\ subscriptions' =
                      Append(subscriptions,
                             NewSubscription(user_id, req.now, payment.amount \div 100))
                /\ reconciled' = reconciled \cup { req.pay }
                /\ req' = [req EXCEPT !.pc = "grant"]
                /\ UNCHANGED response
           ELSE \E s \in mine :
                  IF subscriptions[s].end_date # NoTime
                     /\ StoredAfter(subscriptions[s].end_date, req.now) = "TypeError"
                  THEN \* the outer `except Exception`: HTTP 500, the cookie
                       \* is not cleared, the first commit stays
                       /\ response' = [handler |-> "success", kind |-> "error500",
                                       cookie_deleted |-> FALSE]
                       /\ req' = IdleReq
                       /\ UNCHANGED << subscriptions, reconciled >>
                  ELSE /\ subscriptions' =
                             [subscriptions EXCEPT
                                ![s] = ReconciledRow(subscriptions[s], req.now)]
                       /\ reconciled' = reconciled \cup { req.pay }
                       /\ req' = [req EXCEPT !.pc = "grant"]
                       /\ UNCHANGED response
    /\ UNCHANGED << now, ticks, dbNaive, adminOps, users, payments, jar, sweep,
                    grantCalls, vin, vout, waiting >>

(***************************************************************************)
(* SubscriptionManager.add_user_to_paid_channel                            *)
(* (app/core/subscription_manager.py:189-227): the result for the user row *)
(* when the two bot calls succeed; on a failure it rolls back and raises.  *)
(***************************************************************************)
GrantOutcomes == { "ok", "invite_link_failed", "send_message_failed" }

add_user_to_paid_channel(user_id, outcome) ==
    IF outcome = "ok"
    THEN [users EXCEPT ![user_id].is_in_paid_channel = TRUE,
                       ![user_id].paid_channel_join_date = now]
    ELSE users

\* The grant step without the try / except of lines 1244-1248: a failed
\* grant reaches the outer handler.
success_grant_unguarded(outcome) ==
    /\ req.pc = "grant"
    /\ LET user_id == payments[req.pay].user_id
       IN  /\ users' = add_user_to_paid_channel(user_id, outcome)
           /\ grantCalls' = [grantCalls EXCEPT ![user_id] = @ + 1]
    /\ response' = IF outcome = "ok"
                   THEN [handler |-> "success", kind |-> "ok",
                         cookie_deleted |-> TRUE]
                   ELSE [handler |-> "success", kind |-> "error500",
                         cookie_deleted |-> FALSE]
    /\ req' = IdleReq
    /\ UNCHANGED << now, ticks, dbNaive, adminOps, payments, subscriptions, jar, sweep,
                    reconciled, vin, vout, waiting >>

success_grant(outcome) ==
    /\ req.pc = "grant"
    /\ LET user_id == payments[req.pay].user_id
       IN  /\ users' = add_user_to_paid_channel(user_id, outcome)
           /\ grantCalls' = [grantCalls EXCEPT ![user_id] = @ + 1]
    /\ response' = [handler |-> "success", kind |-> "ok",
                    cookie_deleted |-> TRUE]
    /\ req' = IdleReq
    /\ UNCHANGED << now, ticks, dbNaive, adminOps, payments, subscriptions, jar, sweep,
                    reconciled, vin, vout, waiting >>

(***************************************************************************)
(* Two redirects at once.  The process runs one event loop (main.py:105),  *)
(* and robokassa_success has no await before the one at line 1246: a       *)
(* second request is served only while the first is suspended there, with  *)
(* both of its commits done.  `req` is the request the loop is running,    *)
(* `waiting` the suspended ones.                                           *)
(***************************************************************************)
success_suspend ==
    /\ req.pc = "grant"
    /\ waiting' = waiting \cup { req }
    /\ req' = IdleReq
    /\ UNCHANGED << now, ticks, dbNaive, adminOps, users, payments, subscriptions,
                    jar, response, sweep, grantCalls, reconciled, vin, vout >>

success_resume(w) ==
    /\ req.pc = "idle"
    /\ w \in waiting
    /\ req' = w
    /\ waiting' = waiting \ { w }
    /\ UNCHANGED << now, ticks, dbNaive, adminOps, users, payments, subscriptions,
                    jar, response, sweep, grantCalls, reconciled, vin, vout >>

(***************************************************************************)
(* GET /robokassa/fail (app/admin/app.py:1269-1309).                       *)
(***************************************************************************)
robokassa_fail(cookie_value) ==
    /\ EventLoopFree
    /\ LET payment_id == _parse_and_verify_payment_cookie(cookie_value, now)
           payment    == IF Truthy(payment_id)
                         THEN PendingPayment(payment_id, now) ELSE 0
       IN  IF payment # 0
           THEN payments' = [payments EXCEPT ![payment].status = "failed",
                                             ![payment].completed_at = now]
           ELSE UNCHANGED payments
    /\ response' = [handler |-> "fail", kind |-> "fail_page",
                    cookie_deleted |-> TRUE]
    /\ UNCHANGED << now, ticks, dbNaive, adminOps, users, subscriptions, jar, req, sweep,
                    grantCalls, reconciled, vin, vout, waiting >>

(***************************************************************************)
(* Admin operations on subscriptions (app/admin/app.py:714-979).  The      *)
(* caller is an authenticated admin.                                       *)
(***************************************************************************)
CreateDays == { 1, 30 }
ExtendDays == { 7, 30 }

create_subscription(user_id, days, amount) ==
    /\ EventLoopFree
    /\ adminOps' = adminOps + 1
    /\ days >= 1 /\ days <= 365 /\ amount >= 0
    /\ user_id \in DOMAIN users
    /\ subscriptions' = Append(subscriptions,
                               [user_id        |-> user_id,
                                start_date     |-> now,
                                end_date       |-> now + days * Day,
                                is_active      |-> TRUE,
                                auto_renewal   |-> FALSE,
                                payment_amount |-> amount])
    /\ UNCHANGED response
    /\ UNCHANGED << now, ticks, dbNaive, users, payments, jar, req, sweep,
                    grantCalls, reconciled, vin, vout, waiting >>

\* Lines 835-841.
ExtendedRow(row, days, t) ==
    IF StoredAfter(row.end_date, t) = "true"
    THEN [row EXCEPT !.end_date = row.end_date + days * Day, !.is_active = TRUE]
    ELSE [row EXCEPT !.end_date = t + days * Day, !.is_active = TRUE]

extend_subscription(subscription_id, days) ==
    /\ EventLoopFree
    /\ adminOps' = adminOps + 1
    /\ days >= 1 /\ days <= 365
    /\ subscription_id \in 1 .. Len(subscriptions)
    /\ IF StoredAfter(subscriptions[subscription_id].end_date, now) = "TypeError"
       THEN \* `except Exception`: rollback, HTTP 500
            /\ UNCHANGED response
            /\ UNCHANGED subscriptions
       ELSE /\ subscriptions' =
                  [subscriptions EXCEPT ![subscription_id] =
                     ExtendedRow(subscriptions[subscription_id], days, now)]
            /\ UNCHANGED response
    /\ UNCHANGED << now, ticks, dbNaive, users, payments, jar, req, sweep,
                    grantCalls, reconciled, vin, vout, waiting >>

cancel_subscription(subscription_id) ==
    /\ EventLoopFree
    /\ adminOps' = adminOps + 1
    /\ subscription_id \in 1 .. Len(subscriptions)
    /\ subscriptions' = [subscriptions EXCEPT
                           ![subscription_id].is_active = FALSE,
                           ![subscription_id].auto_renewal = FALSE]
    /\ UNCHANGED response
    /\ UNCHANGED << now, ticks, dbNaive, users, payments, jar, req, sweep,
                    grantCalls, reconciled, vin, vout, waiting >>

\* An activation that sets the start date and leaves the end date alone.
ActivatedRowStartOnly(row, t) ==
    [row EXCEPT !.is_active = TRUE, !.start_date = t]

\* Lines 877-880.
ActivatedRow(row, t) ==
    [row EXCEPT !.is_active = TRUE, !.start_date = t, !.end_date = t + 30 * Day]

\* POST /api/subscriptions/{id}/activate (lines 870-897).  The row is
\* changed in the session and the only commit is the one inside
\* add_user_to_paid_channel (subscription_manager.py:219), after both bot
\* calls; when a bot call fails that function rolls the session back and
\* raises, and the handler answers HTTP 500.
activate_subscription(subscription_id, outcome) ==
    /\ EventLoopFree
    /\ adminOps' = adminOps + 1
    /\ subscription_id \in 1 .. Len(subscriptions)
    /\ LET user_id == subscriptions[subscription_id].user_id
       IN  /\ grantCalls' = [grantCalls EXCEPT ![user_id] = @ + 1]
           /\ users' = add_user_to_paid_channel(user_id, outcome)
           /\ IF outcome = "ok"
              THEN subscriptions' =
                     [subscriptions EXCEPT ![subscription_id] =
                        ActivatedRow(subscriptions[subscription_id], now)]
              ELSE UNCHANGED subscriptions
    /\ response' = [handler |-> "activate",
                    kind |-> IF outcome = "ok" THEN "ok" ELSE "error500",
                    cookie_deleted |-> FALSE]
    /\ UNCHANGED << now, ticks, dbNaive, payments, jar, req, sweep,
                    reconciled, vin, vout, waiting >>

\* POST /api/subscriptions/{id}/deactivate (lines 913-944).  is_active is
\* cleared in the session, then the ban is awaited; a failed ban raises
\* (subscription_manager.py:162-164) past the commit of line 931 into the
\* handler's rollback.
deactivate_subscription(subscription_id, outcome) ==
    /\ EventLoopFree
    /\ adminOps' = adminOps + 1
    /\ subscription_id \in 1 .. Len(subscriptions)
    /\ LET user_id == subscriptions[subscription_id].user_id
       IN  IF outcome = "ok"
           THEN /\ subscriptions' =
                      [subscriptions EXCEPT ![subscription_id].is_active = FALSE]
                /\ users' = [users EXCEPT
                               ![user_id].is_in_paid_channel = FALSE,
                               ![user_id].paid_channel_join_date = NoTime]
           ELSE UNCHANGED << subscriptions, users >>
    /\ response' = [handler |-> "deactivate",
                    kind |-> IF outcome = "ok" THEN "ok" ELSE "error500",
                    cookie_deleted |-> FALSE]
    /\ UNCHANGED << now, ticks, dbNaive, payments, jar, req, sweep,
                    grantCalls, reconciled, vin, vout, waiting >>

(***************************************************************************)
(* The background loop (main.py:117-153) and its two passes                *)
(* (app/core/subscription_manager.py:28-51, 104-146).  One database        *)
(* session serves a whole sweep; the revocation pass changes its rows in   *)
(* the session and commits once, after the loop.                           *)
(***************************************************************************)
notification_intervals == << 7, 3, 1 >>

Midnight(t) == (t \div Day) * Day

\* The reminders of one notification pass: (subscription, days) pairs.
check_expiring_subscriptions(t) ==
    { << s, notification_intervals[k] >> :
        s \in 1 .. Len(subscriptions), k \in 1 .. Len(notification_intervals) }
    \cap
    { p \in (1 .. Len(subscriptions)) \X SeqElems(notification_intervals) :
        LET start_date == Midnight(t + p[2] * Day)
            end_date   == start_date + Day
        IN  /\ subscriptions[p[1]].user_id \in DOMAIN users
            /\ subscriptions[p[1]].is_active
            /\ subscriptions[p[1]].end_date >= start_date
            /\ subscriptions[p[1]].end_date < end_date }

\* The query without its is_active filter.
expiring_subscriptions_any_flag(t, days) ==
    LET start_date == Midnight(t + days * Day)
        end_date   == start_date + Day
    IN  { s \in 1 .. Len(subscriptions) :
            /\ subscriptions[s].user_id \in DOMAIN users
            /\ subscriptions[s].end_date >= start_date
            /\ subscriptions[s].end_date < end_date }

\* Lines 35-43: the rows of one lead time.
expiring_subscriptions(t, days) ==
    LET start_date == Midnight(t + days * Day)
        end_date   == start_date + Day
    IN  { s \in 1 .. Len(subscriptions) :
            /\ subscriptions[s].user_id \in DOMAIN users
            /\ subscriptions[s].is_active = TRUE
            /\ subscriptions[s].end_date >= start_date
            /\ subscriptions[s].end_date < end_date }

\* Lines 33-46: the calls of send_expiration_notification made by one
\* pass, as a bag of (subscription, days) pairs: one call per row of each
\* lead time's query, for each entry of notification_intervals.
SentReminders(t) ==
    LET P == { p \in (1 .. Len(subscriptions)) \X SeqElems(notification_intervals) :
                 p[1] \in expiring_subscriptions(t, p[2]) }
    IN  [p \in P |->
           Cardinality({ k \in DOMAIN notification_intervals :
                           notification_intervals[k] = p[2] })]

\* A loop whose next iteration does not wait for the previous one.
IterationFinishedNever(sw) == TRUE

\* main.py:121-151: one coroutine runs `while True`; each iteration awaits
\* both passes and then the sleep, so the next iteration begins only when
\* the previous one has returned.
IterationFinished(sw) == sw.pc = "idle"

\* A loop whose `try` is around the `while`: the first failure ends it.
AfterIterationStopOnFailure(failed) ==
    IF failed # {} THEN "stopped" ELSE "idle"

\* main.py:124-146: the `try` is inside the `while`, and both passes catch
\* what they raise, so every iteration ends in the sleep.
AfterIteration(failed) == "idle"

sweep_notify ==
    /\ IterationFinished(sweep)
    /\ now >= sweep.wake
    /\ sweep' = [sweep EXCEPT !.pc = "select",
                              !.reminders = check_expiring_subscriptions(now),
                              !.sent = SentReminders(now),
                              !.prev_sent = sweep.sent,
                              !.failed = {}, !.prev_failed = sweep.failed,
                              !.calls = << >>, !.notices = << >>,
                              !.selected = << >>, !.idx = 1,
                              !.removed_count = 0, !.dirty = {}]
    /\ UNCHANGED << now, ticks, dbNaive, adminOps, users, payments, subscriptions, jar,
                    req, response, grantCalls, reconciled, vin, vout, waiting >>

\* The selection without its is_active filter.
ExpiredIgnoringActive(t) ==
    { s \in 1 .. Len(subscriptions) :
        /\ subscriptions[s].user_id \in DOMAIN users
        /\ subscriptions[s].end_date < t }

\* Lines 110-113: the rows of the revocation pass.
Expired(t) ==
    { s \in 1 .. Len(subscriptions) :
        /\ subscriptions[s].user_id \in DOMAIN users
        /\ subscriptions[s].is_active = TRUE
        /\ subscriptions[s].end_date < t }

Orderings(S) ==
    { q \in [1 .. Cardinality(S) -> S] : \A i, j \in DOMAIN q : i # j => q[i] # q[j] }

sweep_select ==
    /\ sweep.pc = "select"
    /\ \E q \in Orderings(Expired(now)) :
         sweep' = [sweep EXCEPT !.pc = "rows", !.now = now, !.selected = q,
                                !.idx = 1, !.removed_count = 0, !.dirty = {}]
    /\ UNCHANGED << now, ticks, dbNaive, adminOps, users, payments, subscriptions, jar,
                    req, response, grantCalls, reconciled, vin, vout, waiting >>

RevokeOutcomes == { "ok", "ban_failed" }

\* A loop that gives up at the first failed ban.
RowStepAbort(sw, s, outcome) ==
    IF outcome = "ok"
    THEN [sw EXCEPT !.calls = Append(@, s), !.notices = Append(@, s),
                    !.removed_count = @ + 1, !.idx = @ + 1,
                    !.dirty = @ \cup { [sub  |-> s,
                                        user |-> subscriptions[s].user_id,
                                        flag |-> users[subscriptions[s].user_id]
                                                   .is_in_paid_channel,
                                        date |-> users[subscriptions[s].user_id]
                                                   .paid_channel_join_date # NoTime] }]
    ELSE [sw EXCEPT !.calls = Append(@, s), !.idx = Len(sw.selected) + 1,
                    !.failed = @ \cup { "ban" }]

\* Lines 117-138 for one row.  A failed ban raises out of
\* remove_user_from_paid_channel before anything is changed; the row's
\* `except` logs and continues.  A failed removal notice is swallowed by
\* send_removal_notification, so only the attempt is recorded.
RowStep(sw, s, outcome) ==
    IF outcome = "ok"
    THEN [sw EXCEPT !.calls = Append(@, s), !.notices = Append(@, s),
                    !.removed_count = @ + 1, !.idx = @ + 1,
                    !.dirty = @ \cup { [sub  |-> s,
                                        user |-> subscriptions[s].user_id,
                                        flag |-> users[subscriptions[s].user_id]
                                                   .is_in_paid_channel,
                                        date |-> users[subscriptions[s].user_id]
                                                   .paid_channel_join_date # NoTime] }]
    ELSE [sw EXCEPT !.calls = Append(@, s), !.idx = @ + 1,
                    !.failed = @ \cup { "ban" }]

sweep_row(outcome) ==
    /\ sweep.pc = "rows"
    /\ sweep.idx <= Len(sweep.selected)
    /\ sweep' = RowStep(sweep, sweep.selected[sweep.idx], outcome)
    /\ UNCHANGED << now, ticks, dbNaive, adminOps, users, payments, subscriptions, jar,
                    req, response, grantCalls, reconciled, vin, vout, waiting >>

\* Lines 140-142: the commit writes the attributes the session changed.
CommittedSubscriptions(dirty) ==
    [s \in 1 .. Len(subscriptions) |->
       IF \E d \in dirty : d.sub = s
       THEN [subscriptions[s] EXCEPT !.is_active = FALSE]
       ELSE subscriptions[s]]

CommittedUsers(dirty) ==
    [u \in DOMAIN users |->
       [is_in_paid_channel |->
           IF \E d \in dirty : d.user = u /\ d.flag
           THEN FALSE ELSE users[u].is_in_paid_channel,
        paid_channel_join_date |->
           IF \E d \in dirty : d.user = u /\ d.date
           THEN NoTime ELSE users[u].paid_channel_join_date]]

sweep_commit ==
    /\ sweep.pc = "rows"
    /\ sweep.idx > Len(sweep.selected)
    /\ IF sweep.removed_count > 0
       THEN /\ subscriptions' = CommittedSubscriptions(sweep.dirty)
            /\ users' = CommittedUsers(sweep.dirty)
       ELSE UNCHANGED << subscriptions, users >>
    /\ sweep' = [sweep EXCEPT !.pc = AfterIteration(sweep.failed), !.count = @ + 1,
                              !.wake = now + SLEEP_SECONDS]
    /\ UNCHANGED << now, ticks, dbNaive, adminOps, payments, jar, req, response,
                    grantCalls, reconciled, vin, vout, waiting >>

(***************************************************************************)
(* The failures of a sweep.  A query of the notification pass that raises  *)
(* ends that pass (subscription_manager.py:50-51) after the reminders of   *)
(* the lead times before it; the loop goes on to the revocation pass.  A   *)
(* query or commit of the revocation pass that raises is logged and        *)
(* rolled back (144-146).  A failed ban is an outcome of sweep_row.        *)
(***************************************************************************)
IntervalsBefore(k) == { notification_intervals[i] : i \in 1 .. k - 1 }

sweep_notify_failed(k) ==
    /\ IterationFinished(sweep)
    /\ now >= sweep.wake
    /\ sweep' = [sweep EXCEPT !.pc = "select",
                              !.reminders = { p \in check_expiring_subscriptions(now) :
                                                p[2] \in IntervalsBefore(k) },
                              !.sent = [p \in { q \in DOMAIN SentReminders(now) :
                                                  q[2] \in IntervalsBefore(k) }
                                          |-> SentReminders(now)[p]],
                              !.prev_sent = sweep.sent,
                              !.failed = { "notify" }, !.prev_failed = sweep.failed,
                              !.calls = << >>, !.notices = << >>,
                              !.selected = << >>, !.idx = 1,
                              !.removed_count = 0, !.dirty = {}]
    /\ UNCHANGED << now, ticks, dbNaive, adminOps, users, payments, subscriptions, jar,
                    req, response, grantCalls, reconciled, vin, vout, waiting >>

sweep_select_failed ==
    /\ sweep.pc = "select"
    /\ sweep' = [sweep EXCEPT !.pc = AfterIteration(sweep.failed \cup { "select" }),
                              !.now = now,
                              !.failed = @ \cup { "select" },
                              !.count = @ + 1, !.wake = now + SLEEP_SECONDS]
    /\ UNCHANGED << now, ticks, dbNaive, adminOps, users, payments, subscriptions, jar,
                    req, response, grantCalls, reconciled, vin, vout, waiting >>

sweep_commit_failed ==
    /\ sweep.pc = "rows"
    /\ sweep.idx > Len(sweep.selected)
    /\ sweep.removed_count > 0
    /\ sweep' = [sweep EXCEPT !.pc = AfterIteration(sweep.failed \cup { "commit" }),
                              !.failed = @ \cup { "commit" },
                              !.count = @ + 1, !.wake = now + SLEEP_SECONDS]
    /\ UNCHANGED << now, ticks, dbNaive, adminOps, users, payments, subscriptions, jar,
                    req, response, grantCalls, reconciled, vin, vout, waiting >>

(***************************************************************************)
(* History: the rows a completed sweep deactivated and that nothing has    *)
(* written to since, each with the paid-channel flag its user had when the *)
(* sweep loaded the user.                                                  *)
(***************************************************************************)
RowUntouched(s) ==
    /\ subscriptions'[s] = subscriptions[s]
    /\ subscriptions[s].user_id \in DOMAIN users
         => users'[subscriptions[s].user_id] = users[subscriptions[s].user_id]

History ==
    prevRevoked' =
        IF sweep.pc = "rows" /\ sweep'.pc = "idle" /\ "commit" \notin sweep'.failed
        THEN { r \in prevRevoked : \A d \in sweep.dirty : d.sub # r.sub }
             \cup (IF sweep.removed_count > 0
                   THEN { [sub |-> d.sub, was_in |-> d.flag] : d \in sweep.dirty }
                   ELSE {})
        ELSE { r \in prevRevoked : RowUntouched(r.sub) }

(***************************************************************************)
(* The payment flow: payment page, the two redirects, the admin operations *)
(* that put subscription rows in place, and the clock.                     *)
(***************************************************************************)
Next ==
    \/ ticks < MaxTicks /\ Tick /\ History /\ UNCHANGED botvars
    \/ Len(payments) < MaxPayments /\ (\E u \in Users : payment_page(u)) /\ History /\ UNCHANGED botvars
    \/ (\E c \in RequestCookies : success_begin(c)) /\ History /\ UNCHANGED botvars
    \/ success_reconcile /\ History /\ UNCHANGED botvars
    \/ (\E o \in GrantOutcomes : success_grant(o)) /\ History /\ UNCHANGED botvars
    \/ (\E c \in RequestCookies : robokassa_fail(c)) /\ History /\ UNCHANGED botvars
    \/ /\ adminOps < MaxAdminOps
       /\ \E u \in Users :
            create_subscription(u, SUBSCRIPTION_DURATION_DAYS, SUBSCRIPTION_PRICE)
       /\ History /\ UNCHANGED botvars
    \/ /\ adminOps < MaxAdminOps
       /\ \E s \in 1 .. Len(subscriptions) : cancel_subscription(s)
       /\ History /\ UNCHANGED botvars

Spec == Init /\ [][Next]_vars

(***************************************************************************)
(* The ledger beside the background loop: admin create / extend / cancel,  *)
(* the sweep in its steps, and the clock.                                  *)
(***************************************************************************)
NextSweep ==
    \/ ticks < MaxSweepTicks /\ Tick /\ History /\ UNCHANGED botvars
    \/ /\ adminOps < MaxLedgerOps
       /\ \E u \in Users, d \in CreateDays :
            create_subscription(u, d, SUBSCRIPTION_PRICE)
       /\ History /\ UNCHANGED botvars
    \/ /\ adminOps < MaxLedgerOps
       /\ \E s \in 1 .. Len(subscriptions), d \in ExtendDays :
            extend_subscription(s, d)
       /\ History /\ UNCHANGED botvars
    \/ /\ adminOps < MaxLedgerOps
       /\ \E s \in 1 .. Len(subscriptions) : cancel_subscription(s)
       /\ History /\ UNCHANGED botvars
    \/ sweep.count < MaxSweeps /\ sweep_notify /\ History /\ UNCHANGED botvars
    \/ sweep_select /\ History /\ UNCHANGED botvars
    \/ (\E o \in RevokeOutcomes : sweep_row(o)) /\ History /\ UNCHANGED botvars
    \/ sweep_commit /\ History /\ UNCHANGED botvars

\* The sweep starts from a ledger in which any user may already have been
\* let into the paid channel by an earlier grant.
InitSweep ==
    /\ now = StartTime
    /\ ticks = 0
    /\ dbNaive \in BOOLEAN
    /\ users \in [Users -> { [is_in_paid_channel |-> FALSE,
                              paid_channel_join_date |-> NoTime],
                             [is_in_paid_channel |-> TRUE,
                              paid_channel_join_date |-> StartTime] }]
    /\ payments = << >>
    /\ subscriptions = << >>
    /\ jar = {}
    /\ req = IdleReq
    /\ response = NoResponse
    /\ sweep = IdleSweep
    /\ adminOps = 0
    /\ grantCalls = [u \in Users |-> 0]
    /\ reconciled = {}
    /\ prevRevoked = {}
    /\ vin = NoStr
    /\ vout = << "unset" >>
    /\ waiting = {}
    /\ BotIdle

SpecSweep == InitSweep /\ [][NextSweep]_vars

(***************************************************************************)
(* The scheduler under failure: the loop with the failures of its passes,  *)
(* an admin who puts rows in place, and the clock.  The loop's coroutine   *)
(* is the only task of its thread's event loop (main.py:149), every await  *)
(* in it returns or raises, and the clock advances: each is weakly fair.   *)
(***************************************************************************)
SchedulerTick ==
    ticks < MaxSchedulerTicks /\ Tick /\ History /\ UNCHANGED botvars

SchedulerStep ==
    \/ sweep.count < MaxSweeps /\ sweep_notify /\ History /\ UNCHANGED botvars
    \/ /\ sweep.count < MaxSweeps
       /\ \E k \in 1 .. Len(notification_intervals) : sweep_notify_failed(k)
       /\ History /\ UNCHANGED botvars
    \/ sweep_select /\ History /\ UNCHANGED botvars
    \/ sweep_select_failed /\ History /\ UNCHANGED botvars
    \/ (\E o \in RevokeOutcomes : sweep_row(o)) /\ History /\ UNCHANGED botvars
    \/ sweep_commit /\ History /\ UNCHANGED botvars
    \/ sweep_commit_failed /\ History /\ UNCHANGED botvars

NextScheduler ==
    \/ SchedulerTick
    \/ /\ adminOps < MaxAdminOps
       /\ \E u \in Users, d \in CreateDays :
            create_subscription(u, d, SUBSCRIPTION_PRICE)
       /\ History /\ UNCHANGED botvars
    \/ sweep.count < MaxSweeps /\ sweep_notify /\ History /\ UNCHANGED botvars
    \/ /\ sweep.count < MaxSweeps
       /\ \E k \in 1 .. Len(notification_intervals) : sweep_notify_failed(k)
       /\ History /\ UNCHANGED botvars
    \/ sweep_select /\ History /\ UNCHANGED botvars
    \/ sweep_select_failed /\ History /\ UNCHANGED botvars
    \/ (\E o \in RevokeOutcomes : sweep_row(o)) /\ History /\ UNCHANGED botvars
    \/ sweep_commit /\ History /\ UNCHANGED botvars
    \/ sweep_commit_failed /\ History /\ UNCHANGED botvars

SpecScheduler ==
    /\ InitSweep
    /\ [][NextScheduler]_vars
    /\ WF_vars(SchedulerTick)
    /\ WF_vars(SchedulerStep)

(***************************************************************************)
(* The whole ledger: every writer of Subscription rows side by side -- the *)
(* payment flow, the five admin operations and the sweep.                  *)
(***************************************************************************)
NextLedger ==
    \/ ticks < MaxTicks /\ Tick /\ History /\ UNCHANGED botvars
    \/ Len(payments) < MaxLedgerPayments /\ (\E u \in Users : payment_page(u)) /\ History /\ UNCHANGED botvars
    \/ (\E c \in jar : success_begin(c)) /\ History /\ UNCHANGED botvars
    \/ success_reconcile /\ History /\ UNCHANGED botvars
    \/ (\E o \in GrantOutcomes : success_grant(o)) /\ History /\ UNCHANGED botvars
    \/ /\ adminOps < MaxLedgerOps
       /\ \E u \in Users, d \in CreateDays :
            create_subscription(u, d, SUBSCRIPTION_PRICE)
       /\ History /\ UNCHANGED botvars
    \/ /\ adminOps < MaxLedgerOps
       /\ \E s \in 1 .. Len(subscriptions), d \in ExtendDays :
            extend_subscription(s, d)
       /\ History /\ UNCHANGED botvars
    \/ /\ adminOps < MaxLedgerOps
       /\ \E s \in 1 .. Len(subscriptions), o \in GrantOutcomes :
            activate_subscription(s, o)
       /\ History /\ UNCHANGED botvars
    \/ /\ adminOps < MaxLedgerOps
       /\ \E s \in 1 .. Len(subscriptions), o \in RevokeOutcomes :
            deactivate_subscription(s, o)
       /\ History /\ UNCHANGED botvars
    \/ /\ adminOps < MaxLedgerOps
       /\ \E s \in 1 .. Len(subscriptions) : cancel_subscription(s)
       /\ History /\ UNCHANGED botvars
    \/ sweep.count < MaxLedgerSweeps /\ sweep_notify /\ History /\ UNCHANGED botvars
    \/ sweep_select /\ History /\ UNCHANGED botvars
    \/ (\E o \in RevokeOutcomes : sweep_row(o)) /\ History /\ UNCHANGED botvars
    \/ sweep_commit /\ History /\ UNCHANGED botvars

SpecLedger == Init /\ [][NextLedger]_vars

(***************************************************************************)
(* Redirects served side by side: payment pages, the success handler in    *)
(* its steps with its suspension at the grant, and the fail handler.       *)
(***************************************************************************)
NextConcurrent ==
    \/ Len(payments) < MaxPayments /\ (\E u \in Users : payment_page(u)) /\ History /\ UNCHANGED botvars
    \/ (\E c \in jar : success_begin(c)) /\ History /\ UNCHANGED botvars
    \/ success_reconcile /\ History /\ UNCHANGED botvars
    \/ success_suspend /\ History /\ UNCHANGED botvars
    \/ (\E w \in waiting : success_resume(w)) /\ History /\ UNCHANGED botvars
    \/ (\E o \in GrantOutcomes : success_grant(o)) /\ History /\ UNCHANGED botvars
    \/ (\E c \in jar : robokassa_fail(c)) /\ History /\ UNCHANGED botvars

SpecConcurrent == Init /\ [][NextConcurrent]_vars

(***************************************************************************)
(* The cookie check on its own: every cookie text of a bounded universe    *)
(* at every clock reading of a bounded set.                                *)
(***************************************************************************)
VerifyNows == { 10000, 13600 }

PidParts == { << >>, << "O", "R", "D", "-", "a" >>, << "O", "R", "D", "-", "b" >> }

IssuedParts ==
    { PyStr(t) : t \in { 6399, 6400, 9999, 10000, 10060, 10061, 13660, 13661 } }
    \cup { << >>, << "x" >>, << "-", "5" >>, << "+", "9", "9", "9", "9" >>,
           << "1", "x" >> }

SigParts(p, i) ==
    { _sign_payment_token(p \o << Dot >> \o i),
      _sign_payment_token(<< "O", "R", "D", "-", "a", Dot, "1", "0", "0", "0", "0" >>),
      << "x" >>, << >> }

VerifyCookies ==
    UNION { { p \o << Dot >> \o i \o << Dot >> \o g : g \in SigParts(p, i) }
              : p \in PidParts, i \in IssuedParts }
    \cup { p \o << Dot >> \o i : p \in PidParts, i \in IssuedParts }
    \cup { p \o << Dot >> \o i \o << Dot >>
             \o _sign_payment_token(p \o << Dot >> \o i) \o << Dot, "x" >>
             : p \in PidParts, i \in IssuedParts }
    \cup { NoStr, << >>, << "x" >> }

InitVerify ==
    /\ now \in VerifyNows
    /\ vin \in VerifyCookies
    /\ vout = << "unset" >>
    /\ ticks = 0
    /\ dbNaive = TRUE
    /\ users = [u \in Users |->
                  [is_in_paid_channel |-> FALSE, paid_channel_join_date |-> NoTime]]
    /\ payments = << >>
    /\ subscriptions = << >>
    /\ jar = {}
    /\ req = IdleReq
    /\ response = NoResponse
    /\ sweep = IdleSweep
    /\ adminOps = 0
    /\ grantCalls = [u \in Users |-> 0]
    /\ reconciled = {}
    /\ prevRevoked = {}
    /\ waiting = {}
    /\ BotIdle

verify_call ==
    /\ vout = << "unset" >>
    /\ vout' = _parse_and_verify_payment_cookie(vin, now)
    /\ UNCHANGED << now, ticks, dbNaive, adminOps, users, payments, subscriptions,
                    jar, req, response, sweep, grantCalls, reconciled,
                    prevRevoked, vin, waiting >>

NextVerify == verify_call /\ UNCHANGED botvars

SpecVerify == InitVerify /\ [][NextVerify]_vars

(***************************************************************************)
(* C4.  For every cookie text and clock reading the check returns the      *)
(* payment id embedded in the cookie exactly when the text is              *)
(* payment_id "." issued_at "." sig with sig the HMAC of                   *)
(* payment_id "." issued_at, issued_at an integer, now - issued_at <= 3600 *)
(* and issued_at <= now + 60; it returns None for every other text.  The   *)
(* right-hand side builds the cookie from its parts and never splits it.   *)
(***************************************************************************)
WellFormedFor(cookie_value, t) ==
    { p \in PidParts :
        \E i \in IssuedParts :
          /\ cookie_value = p \o << Dot >> \o i \o << Dot >>
                              \o _sign_payment_token(p \o << Dot >> \o i)
          /\ PyIntOk(i)
          /\ t - PyInt(i) <= 3600
          /\ PyInt(i) <= t + 60 }

C4_VerifyIff ==
    vout # << "unset" >> =>
        IF WellFormedFor(vin, now) = {}
        THEN vout = NoStr
        ELSE vout \in WellFormedFor(vin, now)

\* A cookie that is accepted at the very edge of its lifetime has been checked.
C4_Witness ==
    /\ vout # << "unset" >>
    /\ vout # NoStr
    /\ vout # << >>
    /\ \E i \in IssuedParts :
         /\ PyIntOk(i)
         /\ now - PyInt(i) = 3600
         /\ vin = vout \o << Dot >> \o i \o << Dot >>
                    \o _sign_payment_token(vout \o << Dot >> \o i)

(***************************************************************************)
(* C1.  A payment's status only ever moves from pending to success or to   *)
(* failed; once it is success or failed, neither a success request nor a   *)
(* fail request (nor any other step) changes its status or completed_at.   *)
(***************************************************************************)
Terminal == { "success", "failed" }

C1_StatusOneWay ==
    [][ /\ Len(payments') >= Len(payments)
        /\ \A i \in 1 .. Len(payments) :
             /\ payments'[i].status # payments[i].status
                  => /\ payments[i].status = "pending"
                     /\ payments'[i].status \in Terminal
             /\ payments[i].status \in Terminal
                  => /\ payments'[i].status = payments[i].status
                     /\ payments'[i].completed_at = payments[i].completed_at
      ]_vars

\* A success request with the valid cookie of a payment that had already
\* failed has been answered, and the payment is still failed.
C1_Witness ==
    /\ response.handler = "success"
    /\ response.kind = "not_found"
    /\ \E i \in 1 .. Len(payments) :
         /\ payments[i].status = "failed"
         /\ \A j \in 1 .. Len(payments) : j # i => payments[j].status = "pending"

(***************************************************************************)
(* C2.  Marking a payment success and creating or extending the            *)
(* subscription form one atomic unit: in no committed state is a payment   *)
(* success while the subscription update for it has not been committed.    *)
(***************************************************************************)
C2_AtomicReconcile ==
    \A i \in 1 .. Len(payments) :
        payments[i].status = "success" => i \in reconciled

(***************************************************************************)
(* C3.  A success request that carries a cookie which verifies, for a      *)
(* payment that an earlier success request has already moved to success,   *)
(* is answered with the payment-not-found page, changes no payment, no     *)
(* subscription and no user, and leads to no channel grant call.           *)
(***************************************************************************)
C3_ReplayNoOp ==
    [][ \* what every success_begin step has in common, looked at first
        ( /\ req.pc = "idle"
          /\ response'.handler = "success" \/ req'.pc = "reconcile"
          /\ now' = now /\ jar' = jar /\ adminOps' = adminOps )
        => \A c \in RequestCookies :
             LET payment_id == _parse_and_verify_payment_cookie(c, now)
             IN  ( /\ Truthy(payment_id)
                   /\ \E i \in 1 .. Len(payments) :
                        /\ payments[i].payment_id = payment_id
                        /\ payments[i].status = "success"
                   /\ success_begin(c) )
                 => /\ response'.handler = "success"
                    /\ response'.kind = "not_found"
                    /\ payments' = payments
                    /\ subscriptions' = subscriptions
                    /\ users' = users
                    /\ grantCalls' = grantCalls
                    /\ req'.pc = "idle"
      ]_vars

\* The cookie of a reconciled payment has been replayed: the answer is the
\* not-found page and the owner has seen one grant call only.
C3_Witness ==
    /\ response.handler = "success"
    /\ response.kind = "not_found"
    /\ req.pc = "idle"
    /\ \E i \in 1 .. Len(payments) :
         /\ payments[i].status = "success"
         /\ i \in reconciled
         /\ grantCalls[payments[i].user_id] = 1
         /\ \A j \in 1 .. Len(payments) : j # i => payments[j].status = "pending"

(***************************************************************************)
(* C5.  A success or fail request whose cookie does not verify changes no  *)
(* payment, subscription or user row.  A success or fail request whose     *)
(* cookie verifies for payment P changes no payment other than P, and the  *)
(* steps that follow a success request change no subscription and no user  *)
(* other than those of the owner of P.                                     *)
(***************************************************************************)
C5_Frame ==
    [][ /\ \A c \in RequestCookies :
             \/ /\ Len(payments') = Len(payments)
                /\ subscriptions' = subscriptions
                /\ users' = users
                /\ \/ payments' = payments
                   \/ LET payment_id == _parse_and_verify_payment_cookie(c, now)
                      IN  /\ Truthy(payment_id)
                          /\ \A i \in 1 .. Len(payments) :
                               payments[i].payment_id # payment_id
                                 => payments'[i] = payments[i]
             \/ ~(success_begin(c) \/ robokassa_fail(c))
        /\ (success_reconcile \/ \E o \in GrantOutcomes : success_grant(o))
             => LET owner == payments[req.pay].user_id
                IN  /\ payments' = payments
                    /\ \A s \in 1 .. Len(subscriptions) :
                         subscriptions[s].user_id # owner
                           => subscriptions'[s] = subscriptions[s]
                    /\ \A s \in 1 .. Len(subscriptions') :
                         s > Len(subscriptions)
                           => subscriptions'[s].user_id = owner
                    /\ \A u \in DOMAIN users :
                         u # owner => users'[u] = users[u]
      ]_vars

\* One user's payment is reconciled and granted, the other user's payment
\* is still pending with no subscription, and a request without a valid
\* cookie has been turned away.
C5_Witness ==
    /\ response.handler = "success"
    /\ response.kind = "session_expired"
    /\ \E i, j \in 1 .. Len(payments) :
         /\ payments[i].user_id # payments[j].user_id
         /\ payments[i].status = "success"
         /\ i \in reconciled
         /\ users[payments[i].user_id].is_in_paid_channel
         /\ payments[j].status = "pending"
         /\ SubscriptionsOf(payments[j].user_id) = {}
         /\ ~users[payments[j].user_id].is_in_paid_channel

(***************************************************************************)
(* C6.  Extending a subscription that is active with end_date after now,   *)
(* by a reconciled payment or by the admin extend operation, adds the      *)
(* days to the existing end_date and leaves start_date as it is.           *)
(***************************************************************************)
C6_ExtendAddsToEndDate ==
    [][ /\ success_reconcile
             => LET owner == payments[req.pay].user_id
                IN  \A s \in SubscriptionsOf(owner) :
                      ( /\ SubscriptionsOf(owner) = { s }
                        /\ subscriptions[s].is_active
                        /\ subscriptions[s].end_date > req.now )
                      => /\ subscriptions'[s].end_date =
                              subscriptions[s].end_date + Duration
                         /\ subscriptions'[s].start_date = subscriptions[s].start_date
        /\ \A s \in 1 .. Len(subscriptions), d \in ExtendDays :
             ( /\ extend_subscription(s, d)
               /\ subscriptions[s].is_active
               /\ subscriptions[s].end_date > now )
             => /\ subscriptions'[s].end_date = subscriptions[s].end_date + d * Day
                /\ subscriptions'[s].start_date = subscriptions[s].start_date
      ]_vars

(***************************************************************************)
(* C7.  When the owner of a reconciled payment has no currently active     *)
(* subscription (no row, a row whose end_date is not after now, or a row   *)
(* with is_active false), the reconcile leaves the owner with a            *)
(* subscription that has start_date = now, end_date = now + the configured *)
(* duration and is_active true.                                            *)
(***************************************************************************)
C7_RestartFromNow ==
    [][ success_reconcile
          => LET owner == payments[req.pay].user_id
             IN  ( \A s \in SubscriptionsOf(owner) :
                     \/ ~subscriptions[s].is_active
                     \/ subscriptions[s].end_date <= req.now )
                 => \E s \in 1 .. Len(subscriptions') :
                      /\ subscriptions'[s].user_id = owner
                      /\ subscriptions'[s].start_date = req.now
                      /\ subscriptions'[s].end_date = req.now + Duration
                      /\ subscriptions'[s].is_active
      ]_vars

(***************************************************************************)
(* C8.  When the channel grant that follows a reconciled payment fails,    *)
(* the payment stays success, the subscription rows stay as the reconcile  *)
(* committed them, and the request is answered with the normal success     *)
(* page.                                                                   *)
(***************************************************************************)
C8_GrantFailureKeepsLedger ==
    [][ \A o \in GrantOutcomes \ { "ok" } :
          success_grant(o)
          => /\ payments' = payments
             /\ payments'[req.pay].status = "success"
             /\ req.pay \in reconciled'
             /\ subscriptions' = subscriptions
             /\ response'.handler = "success"
             /\ response'.kind = "ok"
      ]_vars

\* A grant has been tried and has failed for a user whose payment is
\* success and whose subscription is active; the answer was the success page.
C8_Witness ==
    /\ response.handler = "success"
    /\ response.kind = "ok"
    /\ req.pc = "idle"
    /\ \E i \in 1 .. Len(payments) :
         /\ payments[i].status = "success"
         /\ i \in reconciled
         /\ grantCalls[payments[i].user_id] = 1
         /\ ~users[payments[i].user_id].is_in_paid_channel
         /\ \E s \in SubscriptionsOf(payments[i].user_id) :
              /\ subscriptions[s].is_active
              /\ subscriptions[s].end_date > now

(***************************************************************************)
(* C9.  For a subscription that is active with end_date before now, and    *)
(* whose revoke call succeeds, a sweep makes exactly one revoke call and   *)
(* one removal notice attempt, and commits is_active false with the        *)
(* user's is_in_paid_channel and paid_channel_join_date cleared; while the *)
(* row stays as the sweep left it, a later sweep does not select it, makes *)
(* no revoke call and sends no notice for it.                              *)
(***************************************************************************)
Count(seq, x) == Cardinality({ i \in 1 .. Len(seq) : seq[i] = x })

C10_ContinueOnError ==
    [][ sweep_commit
          => /\ \A s \in SeqElems(sweep.selected) : Count(sweep.calls, s) = 1
             /\ \A s \in SeqElems(sweep.notices) : ~subscriptions'[s].is_active
             /\ \A s \in SeqElems(sweep.selected) :
                  s \notin SeqElems(sweep.notices)
                    => subscriptions'[s] = subscriptions[s]
      ]_vars

\* A sweep has completed in which the ban failed for one row and a row
\* that came after it was revoked and committed.
C10_Witness ==
    /\ sweep.pc = "idle"
    /\ sweep.count > 0
    /\ \E i, j \in 1 .. Len(sweep.selected) :
         /\ i < j
         /\ sweep.selected[i] \in SeqElems(sweep.calls)
         /\ sweep.selected[i] \notin SeqElems(sweep.notices)
         /\ subscriptions[sweep.selected[i]].is_active
         /\ sweep.selected[j] \in SeqElems(sweep.notices)
         /\ ~subscriptions[sweep.selected[j]].is_active

(***************************************************************************)
(* C20.  Every completion of the success-redirect or fail-redirect handler *)
(* clears the rk_pay cookie, whatever the outcome: missing or invalid      *)
(* cookie, no matching pending payment, successful transition, or an       *)
(* internal error while processing.                                        *)
(***************************************************************************)
C20_CookieAlwaysCleared ==
    response.handler \in {"success", "fail"} => response.cookie_deleted

(***************************************************************************)
(* The payment page beside the settings endpoint and the clock.            *)
(***************************************************************************)
NextPay ==
    \/ ticks < MaxTicks /\ Tick /\ History /\ UNCHANGED botvars
    \/ /\ adminOps < MaxSettingsOps
       /\ \E b \in PriceBodies : update_subscription_settings(b)
       /\ History
    \/ /\ Len(payments) < MaxPayments
       /\ \E u \in Users \cup { UnknownUser } : payment_page(u)
       /\ History /\ UNCHANGED botvars

SpecPay == Init /\ [][NextPay]_vars

\* Ten times the number the stored price text denotes ("99.5" is 995, "500"
\* is 5000); the default price when no price is stored.
StoredPriceTenths ==
    LET parts == PySplit(get_setting_value("subscription_price",
                                           PyStr(SUBSCRIPTION_PRICE)))
    IN  IF Len(parts) = 1 THEN PyInt(parts[1]) * 10
        ELSE PyInt(parts[1]) * 10 + PyInt(parts[2])

(***************************************************************************)
(* C19.  Each payment-page request for an existing user creates exactly    *)
(* one new Payment row with status pending, currency RUB and amount = the  *)
(* currently configured price x 100, and issues a cookie bound to that     *)
(* row's payment_id; a request for an unknown user creates no Payment row. *)
(***************************************************************************)
C19_PaymentPageCreatesPendingRow ==
    [][ \A u \in Users \cup { UnknownUser } :
          payment_page(u)
            => IF u \in DOMAIN users
               THEN /\ Len(payments') = Len(payments) + 1
                    /\ SubSeq(payments', 1, Len(payments)) = payments
                    /\ LET row == payments'[Len(payments')]
                       IN  /\ row.user_id = u
                           /\ row.status = "pending"
                           /\ row.currency = "RUB"
                           /\ row.amount * 10 = StoredPriceTenths * 100
                           /\ \A i \in 1 .. Len(payments) :
                                payments[i].payment_id # row.payment_id
                           /\ \E c \in jar' :
                                _parse_and_verify_payment_cookie(c, now)
                                  = row.payment_id
               ELSE payments' = payments /\ jar' = jar
      ]_vars

(***************************************************************************)
(* The registration conversation (app/bot/bot.py).                         *)
(*                                                                         *)
(* python-telegram-bot hands the updates of the bot to the handlers one at *)
(* a time, so a handler call is one step.  A conversation is kept per      *)
(* (chat, user); the model has one chat per user.  /start is the only      *)
(* entry point and is looked at only while the user has no conversation;   *)
(* /cancel is the only fallback.  Sending a message never fails here; the  *)
(* database may: a session may fail to answer (db_ok = FALSE) and a commit *)
(* fails when it would store a contact_number another row already holds    *)
(* (models.py:25, unique=True).                                            *)
(***************************************************************************)
fields == << "full_name", "activity_field", "company", "role_in_company",
             "contact_number", "participation_purpose" >>

\* Dictionary helpers: d[k] = x, del d[k], d.get(k, default).
PySet(d, k, x) == [j \in DOMAIN d \cup { k } |-> IF j = k THEN x ELSE d[j]]

PyDel(d, k) == [j \in DOMAIN d \ { k } |-> d[j]]

PyGet(d, k, default) == IF k \in DOMAIN d THEN d[k] ELSE default

\* len(value.split()): the number of maximal runs of non-blank characters
Blanks == { " ", "\n", "\t" }

SplitCount(value) ==
    Cardinality({ i \in 1 .. Len(value) :
                    /\ value[i] \notin Blanks
                    /\ (i = 1 \/ value[i - 1] \in Blanks) })

\* Characters other than 0-9 that str.isdecimal() holds for, as \d of a
\* str pattern does: one representative, ARABIC-INDIC DIGIT THREE.
OtherDecimalDigits == { "U+0663" }

\* re.match(r'^(\+7|8)\d{10}$', value): the prefix, ten characters of
\* class \d, and then the end of the text or a single newline that ends it.
phone_pattern(value) ==
    LET skip == IF Len(value) >= 2 /\ value[1] = "+" /\ value[2] = "7" THEN 2
                ELSE IF Len(value) >= 1 /\ value[1] = "8" THEN 1
                ELSE 0
    IN  /\ skip > 0
        /\ Len(value) >= skip + 10
        /\ \A i \in skip + 1 .. skip + 10 :
             IsDigit(value[i]) \/ value[i] \in OtherDecimalDigits
        /\ \/ Len(value) = skip + 10
           \/ Len(value) = skip + 11 /\ value[skip + 11] = "\n"

\* What the user types at each prompt.
NameAnswers == { << "A" >>, << "A", " ", "B" >>, << "C", " ", "D" >> }

Phone1 == << "+", "7", "9", "9", "9", "1", "2", "3", "4", "5", "6", "7" >>
Phone2 == << "8", "9", "9", "9", "1", "2", "3", "4", "5", "6", "7" >>
PhoneAnswers == { Phone1, Phone2, Tail(Phone2) }

Answers(step) ==
    IF fields[step + 1] = "full_name" THEN NameAnswers
    ELSE IF fields[step + 1] = "contact_number" THEN PhoneAnswers
    ELSE { << "x" >> }

AllAnswers == UNION { Answers(i) : i \in 0 .. 5 }

\* `existing_user and existing_user.consent_given` after a lookup by
\* telegram_id; a failed lookup raises instead.
AlwaysOnFile(user_id) == TRUE

ConsentOnFile(user_id) ==
    user_id \in DOMAIN profiles /\ profiles[user_id].consent_given

\* The commit of a users row with this contact_number violates the unique
\* constraint.
IntegrityError(user_id, contact_number) ==
    \E v \in DOMAIN profiles \ { user_id } :
        profiles[v].contact_number = contact_number

NewScratch == [step |-> 0, data |-> << >>]

\* six empty columns, whatever was answered
ProfileFieldsBlank(data) == [f \in SeqElems(fields) |-> << >>]

\* The six registration columns as the handlers fill them from the scratch
\* answers.
ProfileFields(data) == [f \in SeqElems(fields) |-> PyGet(data, f, << >>)]

start_registration(user_id) ==
    /\ user_data_temp' = PySet(user_data_temp, user_id, NewScratch)
    /\ reply' = [user |-> user_id, kind |-> "question"]

start_command(user_id, db_ok) ==
    /\ conv[user_id] = "END"
    /\ IF db_ok /\ ConsentOnFile(user_id)
       THEN /\ user_data_temp' = PyDel(user_data_temp, user_id)
            /\ reply' = [user |-> user_id, kind |-> "welcome_back"]
            /\ conv' = [conv EXCEPT ![user_id] = "MAIN_MENU"]
       ELSE /\ start_registration(user_id)
            /\ conv' = [conv EXCEPT ![user_id] = "FILLING_QUESTIONNAIRE"]
    /\ UNCHANGED << bot_settings, profiles >>
    /\ UNCHANGED << payvars, group_conv, channel_memberships >>

\* update_user_data, called with the scratch entry as it is after the
\* sixth answer.
update_user_data(user_id, user_data) ==
    IF user_id \in DOMAIN profiles
    THEN /\ user_data_temp' = PyDel(user_data_temp, user_id)
         /\ IF IntegrityError(user_id, PyGet(user_data.data, "contact_number", << >>))
            THEN /\ UNCHANGED profiles
                 /\ reply' = [user |-> user_id, kind |-> "update_error"]
            ELSE /\ profiles' =
                      [profiles EXCEPT ![user_id] =
                         [f \in DOMAIN @ |->
                            IF f \in SeqElems(fields)
                            THEN ProfileFields(user_data.data)[f] ELSE @[f]]]
                 /\ reply' = [user |-> user_id, kind |-> "updated"]
    ELSE /\ user_data_temp' = PySet(user_data_temp, user_id, user_data)
         /\ UNCHANGED profiles
         /\ reply' = [user |-> user_id, kind |-> "not_found"]

\* a step index that jumps over a prompt
NextStepSkip(step) == step + 2

\* user_data['step'] += 1
NextStep(step) == step + 1

handle_questionnaire(user_id, value, db_ok) ==
    /\ conv[user_id] = "FILLING_QUESTIONNAIRE"
    /\ IF user_id \notin DOMAIN user_data_temp
       THEN /\ reply' = [user |-> user_id, kind |-> "restart"]
            /\ conv' = [conv EXCEPT ![user_id] = "END"]
            /\ UNCHANGED << user_data_temp, profiles >>
       ELSE LET user_data == user_data_temp[user_id]
                step      == user_data.step
                stored    == [step |-> NextStep(step),
                              data |-> PySet(user_data.data, fields[step + 1], value)]
            IN  IF \/ fields[step + 1] = "full_name" /\ SplitCount(value) < 2
                   \/ fields[step + 1] = "contact_number" /\ ~phone_pattern(value)
                THEN /\ reply' = [user |-> user_id, kind |-> "invalid"]
                     /\ UNCHANGED << conv, user_data_temp, profiles >>
                ELSE IF stored.step < Len(fields)
                THEN /\ user_data_temp' = PySet(user_data_temp, user_id, stored)
                     /\ reply' = [user |-> user_id, kind |-> "question"]
                     /\ UNCHANGED << conv, profiles >>
                ELSE IF db_ok /\ ConsentOnFile(user_id)
                THEN /\ update_user_data(user_id, stored)
                     /\ conv' = [conv EXCEPT ![user_id] = "MAIN_MENU"]
                ELSE /\ user_data_temp' = PySet(user_data_temp, user_id, stored)
                     /\ reply' = [user |-> user_id, kind |-> "consent_prompt"]
                     /\ conv' = [conv EXCEPT ![user_id] = "WAITING_FOR_CONSENT"]
                     /\ UNCHANGED profiles
    /\ UNCHANGED bot_settings
    /\ UNCHANGED << payvars, group_conv, channel_memberships >>

ConsentChoices == { "consent_yes", "consent_no" }

\* every button counts as Accept
IsAcceptAny(data) == TRUE

\* query.data == "consent_yes"
IsAccept(data) == data = "consent_yes"

handle_consent(user_id, data, db_ok) ==
    /\ conv[user_id] = "WAITING_FOR_CONSENT"
    /\ IF IsAccept(data)
       THEN IF user_id \notin DOMAIN user_data_temp
            THEN \* KeyError at line 349, outside the try: the library logs
                 \* it and keeps the conversation where it was
                 /\ reply' = [user |-> user_id, kind |-> "exception"]
                 /\ UNCHANGED << conv, user_data_temp, profiles >>
            ELSE LET user_data == user_data_temp[user_id]
                     cols      == ProfileFields(user_data.data)
                 IN  IF ~db_ok \/ IntegrityError(user_id, cols["contact_number"])
                     THEN /\ reply' = [user |-> user_id, kind |-> "register_error"]
                          /\ conv' = [conv EXCEPT ![user_id] = "END"]
                          /\ UNCHANGED << user_data_temp, profiles >>
                     ELSE /\ profiles' =
                               PySet(profiles, user_id,
                                     [f \in SeqElems(fields)
                                          \cup { "consent_given", "consent_date" } |->
                                        IF f = "consent_given" THEN TRUE
                                        ELSE IF f = "consent_date" THEN now
                                        ELSE cols[f]])
                          /\ user_data_temp' = PyDel(user_data_temp, user_id)
                          /\ reply' = [user |-> user_id, kind |-> "registered"]
                          /\ conv' = [conv EXCEPT ![user_id] = "MAIN_MENU"]
       ELSE /\ reply' = [user |-> user_id, kind |-> "declined"]
            /\ conv' = [conv EXCEPT ![user_id] = "END"]
            /\ UNCHANGED << user_data_temp, profiles >>
    /\ UNCHANGED bot_settings
    /\ UNCHANGED << payvars, group_conv, channel_memberships >>

cancel_command(user_id) ==
    /\ conv[user_id] # "END"
    /\ user_data_temp' = PyDel(user_data_temp, user_id)
    /\ reply' = [user |-> user_id, kind |-> "cancelled"]
    /\ conv' = [conv EXCEPT ![user_id] = "END"]
    /\ UNCHANGED << bot_settings, profiles >>
    /\ UNCHANGED << payvars, group_conv, channel_memberships >>

handle_update_profile(user_id) ==
    /\ conv[user_id] = "MAIN_MENU"
    /\ user_data_temp' = PySet(user_data_temp, user_id, NewScratch)
    /\ reply' = [user |-> user_id, kind |-> "question"]
    /\ conv' = [conv EXCEPT ![user_id] = "FILLING_QUESTIONNAIRE"]
    /\ UNCHANGED << bot_settings, profiles >>
    /\ UNCHANGED << payvars, group_conv, channel_memberships >>

\* callback main_back
handle_main_menu(user_id) ==
    /\ conv[user_id] \in { "MAIN_MENU", "SETTINGS_MENU" }
    /\ user_data_temp' = PyDel(user_data_temp, user_id)
    /\ reply' = [user |-> user_id, kind |-> "main_menu"]
    /\ conv' = [conv EXCEPT ![user_id] = "MAIN_MENU"]
    /\ UNCHANGED << bot_settings, profiles >>
    /\ UNCHANGED << payvars, group_conv, channel_memberships >>

handle_settings(user_id) ==
    /\ conv[user_id] = "MAIN_MENU"
    /\ reply' = [user |-> user_id, kind |-> "settings_menu"]
    /\ conv' = [conv EXCEPT ![user_id] = "SETTINGS_MENU"]
    /\ UNCHANGED << bot_settings, profiles, user_data_temp >>
    /\ UNCHANGED << payvars, group_conv, channel_memberships >>

SettingsChoices == { "settings_back", "settings_payment", "settings_refill" }

handle_settings_menu(user_id, data) ==
    /\ \/ conv[user_id] = "SETTINGS_MENU"
       \/ conv[user_id] = "PAYMENT_MENU" /\ data = "settings_back"
    /\ IF data = "settings_back"
       THEN /\ reply' = [user |-> user_id, kind |-> "main_menu"]
            /\ conv' = [conv EXCEPT ![user_id] = "MAIN_MENU"]
            /\ UNCHANGED user_data_temp
       ELSE IF data = "settings_payment"
       THEN /\ reply' = [user |-> user_id, kind |-> "payment_menu"]
            /\ conv' = [conv EXCEPT ![user_id] = "PAYMENT_MENU"]
            /\ UNCHANGED user_data_temp
       ELSE /\ user_data_temp' = PySet(user_data_temp, user_id, NewScratch)
            /\ reply' = [user |-> user_id, kind |-> "question"]
            /\ conv' = [conv EXCEPT ![user_id] = "FILLING_QUESTIONNAIRE"]
    /\ UNCHANGED << bot_settings, profiles >>
    /\ UNCHANGED << payvars, group_conv, channel_memberships >>

\* callback payment_back
handle_payment_menu(user_id) ==
    /\ conv[user_id] = "PAYMENT_MENU"
    /\ reply' = [user |-> user_id, kind |-> "settings_menu"]
    /\ conv' = [conv EXCEPT ![user_id] = "SETTINGS_MENU"]
    /\ UNCHANGED << bot_settings, profiles, user_data_temp >>
    /\ UNCHANGED << payvars, group_conv, channel_memberships >>

NextBot ==
    \/ ticks < MaxTicks /\ Tick /\ History /\ UNCHANGED botvars
    \/ \E u \in Users, db_ok \in BOOLEAN : start_command(u, db_ok)
    \/ \E u \in Users, v \in AllAnswers, db_ok \in BOOLEAN :
         /\ u \in DOMAIN user_data_temp => v \in Answers(user_data_temp[u].step % 6)
         /\ handle_questionnaire(u, v, db_ok)
    \/ \E u \in Users, d \in ConsentChoices, db_ok \in BOOLEAN :
         handle_consent(u, d, db_ok)
    \/ \E u \in Users : cancel_command(u)
    \/ \E u \in Users : handle_update_profile(u)
    \/ \E u \in Users : handle_main_menu(u)
    \/ \E u \in Users : handle_settings(u)
    \/ \E u \in Users, d \in SettingsChoices : handle_settings_menu(u, d)
    \/ \E u \in Users : handle_payment_menu(u)

\* The bot handlers never order a stored datetime against an aware one, so
\* one database backend is enough here.
InitBot == Init /\ dbNaive

(***************************************************************************)
(* The same user in a second chat.  The ConversationHandler is built with  *)
(* its defaults (bot.py:83-112), so its conversations are keyed by chat    *)
(* and user, while user_data_temp is keyed by user.id alone                *)
(* (bot.py:163-164, 194-197, 757-758): /start and /cancel sent in a group  *)
(* the bot is in run the same two handlers on the user's one scratch       *)
(* entry and move the group's conversation, not the private one.           *)
(***************************************************************************)
start_command_in_group(user_id, db_ok) ==
    /\ group_conv[user_id] = "END"
    /\ IF db_ok /\ ConsentOnFile(user_id)
       THEN /\ user_data_temp' = PyDel(user_data_temp, user_id)
            /\ reply' = [user |-> user_id, kind |-> "welcome_back"]
            /\ group_conv' = [group_conv EXCEPT ![user_id] = "MAIN_MENU"]
       ELSE /\ start_registration(user_id)
            /\ group_conv' = [group_conv EXCEPT ![user_id] = "FILLING_QUESTIONNAIRE"]
    /\ UNCHANGED << bot_settings, profiles, conv, channel_memberships >>
    /\ UNCHANGED payvars

cancel_command_in_group(user_id) ==
    /\ group_conv[user_id] # "END"
    /\ user_data_temp' = PyDel(user_data_temp, user_id)
    /\ reply' = [user |-> user_id, kind |-> "cancelled"]
    /\ group_conv' = [group_conv EXCEPT ![user_id] = "END"]
    /\ UNCHANGED << bot_settings, profiles, conv, channel_memberships >>
    /\ UNCHANGED payvars

NextTwoChats ==
    \/ \E u \in Users, db_ok \in BOOLEAN : start_command(u, db_ok)
    \/ \E u \in Users, v \in AllAnswers, db_ok \in BOOLEAN :
         /\ u \in DOMAIN user_data_temp => v \in Answers(user_data_temp[u].step % 6)
         /\ handle_questionnaire(u, v, db_ok)
    \/ \E u \in Users, d \in ConsentChoices, db_ok \in BOOLEAN :
         handle_consent(u, d, db_ok)
    \/ \E u \in Users : cancel_command(u)
    \/ \E u \in Users, db_ok \in BOOLEAN : start_command_in_group(u, db_ok)
    \/ \E u \in Users : cancel_command_in_group(u)

SpecTwoChats == InitBot /\ [][NextTwoChats]_vars

SpecBot == InitBot /\ [][NextBot]_vars

(***************************************************************************)
(* C11.  For any sequence of conversation events starting from a user with *)
(* no User row, the conversation is in MainMenu only if a User row for     *)
(* that user exists with consent_given = true.                             *)
(***************************************************************************)
C11_MainMenuOnlyWithConsent ==
    \A u \in Users :
        conv[u] = "MAIN_MENU"
          => u \in DOMAIN profiles /\ profiles[u].consent_given

\* A first-time user has accepted and is in the main menu.
C11_Witness ==
    \E u \in Users :
        /\ conv[u] = "MAIN_MENU"
        /\ reply = [user |-> u, kind |-> "registered"]
        /\ u \in DOMAIN profiles

\* The user's sixth answer completes the questionnaire: the handler call
\* that takes the scratch entry from step 5 to a full answer set.
LastAnswer(u, v, db_ok) ==
    /\ u \in DOMAIN user_data_temp
    /\ user_data_temp[u].step = 5
    /\ v \in Answers(5)
    /\ handle_questionnaire(u, v, db_ok)

(***************************************************************************)
(* C12.  A user whose User row already has consent_given = true and who    *)
(* completes the six questionnaire answers again is never moved to         *)
(* WaitingForConsent: the profile fields are overwritten directly,         *)
(* consent_given stays true, and the conversation returns to MainMenu.     *)
(***************************************************************************)
C12_ReRegistrationSkipsConsent ==
    [][ \A u \in Users, v \in Answers(5), db_ok \in BOOLEAN :
          ConsentOnFile(u) /\ LastAnswer(u, v, db_ok)
            => /\ conv'[u] = "MAIN_MENU"
               /\ u \in DOMAIN profiles'
               /\ profiles'[u].consent_given
               /\ \A f \in SeqElems(fields) :
                    profiles'[u][f]
                      = PySet(user_data_temp[u].data, fields[6], v)[f]
      ]_vars

\* What Accept leaves behind when its write commits: the row of u holds the
\* scratch answers, consent and its timestamp; every other row is as it
\* was; the scratch entry of u is gone; the conversation is in MainMenu.
AcceptStored(u) ==
    /\ u \in DOMAIN profiles'
    /\ \A f \in SeqElems(fields) :
         profiles'[u][f] = PyGet(user_data_temp[u].data, f, << >>)
    /\ profiles'[u].consent_given
    /\ profiles'[u].consent_date = now
    /\ \A w \in DOMAIN profiles' \ { u } :
         w \in DOMAIN profiles /\ profiles'[w] = profiles[w]
    /\ u \notin DOMAIN user_data_temp'
    /\ conv'[u] = "MAIN_MENU"

(***************************************************************************)
(* C13.  In WaitingForConsent, choosing Accept, when the write to the      *)
(* database succeeds, creates the User row if none exists or overwrites    *)
(* the profile fields of the existing row with the scratch answers, sets   *)
(* consent_given = true with a consent timestamp, removes the user's       *)
(* scratch entry, and moves the conversation to MainMenu.  When the write  *)
(* fails (the database does not answer, or the contact number is already   *)
(* stored in another user's row) no User row is created or changed and the *)
(* conversation ends.                                                      *)
(***************************************************************************)
C13_AcceptUpserts ==
    [][ \A u \in Users, db_ok \in BOOLEAN :
          u \in DOMAIN user_data_temp /\ handle_consent(u, "consent_yes", db_ok)
            => IF db_ok /\ ~IntegrityError(u, PyGet(user_data_temp[u].data,
                                                    "contact_number", << >>))
               THEN AcceptStored(u)
               ELSE profiles' = profiles /\ conv'[u] = "END"
      ]_vars

\* A user has accepted, and the row holds a validated name, a validated
\* contact number, consent and the time of the consent.
C13_Witness ==
    \E u \in Users :
        /\ reply = [user |-> u, kind |-> "registered"]
        /\ conv[u] = "MAIN_MENU"
        /\ u \in DOMAIN profiles /\ u \notin DOMAIN user_data_temp
        /\ profiles[u].consent_given /\ profiles[u].consent_date = now
        /\ now > StartTime
        /\ profiles[u].full_name = << "C", " ", "D" >>
        /\ profiles[u].contact_number = Phone2

\* C13 as stated, without the condition on the write: every Accept stores
\* the row and moves to MainMenu.
C13_AcceptAlwaysStores ==
    [][ \A u \in Users, db_ok \in BOOLEAN :
          u \in DOMAIN user_data_temp /\ handle_consent(u, "consent_yes", db_ok)
            => AcceptStored(u)
      ]_vars

(***************************************************************************)
(* C14.  In WaitingForConsent, choosing Decline ends the conversation and  *)
(* creates or modifies no User row: none of the questionnaire answers is   *)
(* persisted.                                                              *)
(***************************************************************************)
C14_DeclinePersistsNothing ==
    [][ \A u \in Users, db_ok \in BOOLEAN :
          handle_consent(u, "consent_no", db_ok)
            => conv'[u] = "END" /\ profiles' = profiles
      ]_vars

\* A user with a full answer set has declined: the conversation is over
\* and the user has no row.
C14_Witness ==
    \E u \in Users :
        /\ reply = [user |-> u, kind |-> "declined"]
        /\ conv[u] = "END"
        /\ u \notin DOMAIN profiles
        /\ u \in DOMAIN user_data_temp
        /\ user_data_temp[u].step = 6

\* The handler calls that end a registration flow, by the message they send.
FlowEnds == { "registered", "updated", "update_error", "declined",
              "register_error", "cancelled" }

(***************************************************************************)
(* C15.  Whenever a user's registration flow is over (consent accepted and *)
(* MainMenu reached, a consented user's profile update finished, consent   *)
(* declined, a consent-time persistence error ended the conversation, or   *)
(* /cancel), no scratch entry for that user remains in the in-memory map;  *)
(* and /start always discards any earlier scratch entry before a new flow  *)
(* begins at step 0.                                                       *)
(***************************************************************************)
C15_ScratchClearedWhenFlowEnds ==
    [][ /\ reply' # reply /\ reply'.kind \in FlowEnds
          => reply'.user \notin DOMAIN user_data_temp'
        /\ \A u \in Users, db_ok \in BOOLEAN :
             start_command(u, db_ok)
               => \/ u \notin DOMAIN user_data_temp'
                  \/ user_data_temp'[u] = NewScratch
      ]_vars

\* The answer v fails the validation of the prompt at index step.
FailsValidation(step, v) ==
    \/ step = 0 /\ SplitCount(v) < 2
    \/ step = 4 /\ ~phone_pattern(v)

(***************************************************************************)
(* C16.  In FillingQuestionnaire, an answer that fails validation (fewer   *)
(* than 2 whitespace-separated tokens at the name step, or a contact not   *)
(* matching the phone pattern at the contact step) leaves the conversation *)
(* in FillingQuestionnaire with the step index and the accumulated answers *)
(* unchanged; an answer that passes is stored under the current field and  *)
(* the step index increases by exactly one.  (After the sixth answer of a  *)
(* user with consent on file the same handler call hands the entry to the  *)
(* profile update, which deletes it: the stored answer is then seen in the *)
(* row or in the update's error reply.)                                    *)
(***************************************************************************)
C16_ValidationFrame ==
    [][ \A u \in Users :
          ( /\ conv[u] = "FILLING_QUESTIONNAIRE"
            /\ u \in DOMAIN user_data_temp
            /\ reply'.user = u /\ now' = now )
            => \A v \in Answers(user_data_temp[u].step), db_ok \in BOOLEAN :
                 handle_questionnaire(u, v, db_ok)
                   => LET old == user_data_temp[u]
                      IN  IF FailsValidation(old.step, v)
                          THEN /\ conv'[u] = "FILLING_QUESTIONNAIRE"
                               /\ user_data_temp'[u] = old
                               /\ profiles' = profiles
                          ELSE \/ /\ u \in DOMAIN user_data_temp'
                                  /\ user_data_temp'[u].step = old.step + 1
                                  /\ user_data_temp'[u].data[fields[old.step + 1]] = v
                                  /\ \A f \in DOMAIN old.data \ { fields[old.step + 1] } :
                                       user_data_temp'[u].data[f] = old.data[f]
                                  /\ DOMAIN user_data_temp'[u].data
                                       = DOMAIN old.data \cup { fields[old.step + 1] }
                               \/ /\ old.step = 5 /\ ConsentOnFile(u)
                                  /\ u \notin DOMAIN user_data_temp'
                                  /\ conv'[u] = "MAIN_MENU"
                                  /\ \/ reply'.kind = "update_error"
                                     \/ profiles'[u][fields[6]] = v
      ]_vars

\* A contact answer has just been refused at the contact prompt, after the
\* four answers before it were stored one by one.
C16_Witness ==
    \E u \in Users :
        /\ reply = [user |-> u, kind |-> "invalid"]
        /\ conv[u] = "FILLING_QUESTIONNAIRE"
        /\ u \in DOMAIN user_data_temp
        /\ user_data_temp[u].step = 4
        /\ DOMAIN user_data_temp[u].data
             = { fields[1], fields[2], fields[3], fields[4] }
        /\ user_data_temp[u].data["full_name"] = << "C", " ", "D" >>

(***************************************************************************)
(* The contact-number check alone: one text, one call.                     *)
(***************************************************************************)
PhonePrefixes == { << >>, << "+", "7" >>, << "8" >>, << "7" >>, << "+", "8" >> }

PhoneBodies ==
    { Tail(Phone2),                                  \* ten digits
      SubSeq(Phone2, 2, 10),                         \* nine digits
      Tail(Phone2) \o << "0" >>,                     \* eleven digits
      SubSeq(Phone2, 2, 10) \o << "U+0663" >>,       \* ten, one not 0-9
      SubSeq(Phone2, 2, 10) \o << "a" >> }           \* a letter

PhoneSuffixes == { << >>, << "\n" >>, << " " >>, << "\n", "\n" >> }

PhoneInputs ==
    { p \o b \o x : p \in PhonePrefixes, b \in PhoneBodies, x \in PhoneSuffixes }

InitPhone ==
    /\ now = StartTime
    /\ vin \in PhoneInputs
    /\ vout = << "unset" >>
    /\ ticks = 0
    /\ dbNaive = TRUE
    /\ users = [u \in Users |->
                  [is_in_paid_channel |-> FALSE, paid_channel_join_date |-> NoTime]]
    /\ payments = << >>
    /\ subscriptions = << >>
    /\ jar = {}
    /\ req = IdleReq
    /\ response = NoResponse
    /\ sweep = IdleSweep
    /\ adminOps = 0
    /\ grantCalls = [u \in Users |-> 0]
    /\ reconciled = {}
    /\ prevRevoked = {}
    /\ waiting = {}
    /\ BotIdle

phone_check ==
    /\ vout = << "unset" >>
    /\ vout' = IF phone_pattern(vin) THEN << "match" >> ELSE << "None" >>
    /\ UNCHANGED << now, ticks, dbNaive, adminOps, users, payments, subscriptions,
                    jar, req, response, sweep, grantCalls, reconciled,
                    prevRevoked, vin, waiting >>
    /\ UNCHANGED botvars

NextPhone == phone_check

SpecPhone == InitPhone /\ [][NextPhone]_vars

\* '+7' or '8' followed by exactly ten of the digits 0-9, and nothing else.
PlainPhone(value) ==
    \E p \in { << "+", "7" >>, << "8" >> } :
        /\ Len(value) = Len(p) + 10
        /\ SubSeq(value, 1, Len(p)) = p
        /\ \A i \in Len(p) + 1 .. Len(value) : IsDigit(value[i])

(***************************************************************************)
(* C17.  The contact-number check accepts exactly the strings made of '+7' *)
(* or '8' followed by exactly 10 digits: it accepts +79991234567 and       *)
(* 89991234567 and rejects 9991234567 and +7999123456.                     *)
(***************************************************************************)
C17_PhoneAcceptsExactly ==
    vout # << "unset" >> => (vout = << "match" >> <=> PlainPhone(vin))

(***************************************************************************)
(* The private-chat button (app/bot/bot.py:457-499) and the entitlement    *)
(* test behind it (app/models/models.py:50-54, 81-91).                     *)
(***************************************************************************)
\* the end date alone decides
check_active_any_flag(row, t) == row.end_date # NoTime /\ t < row.end_date

\* Subscription.check_active: a naive end_date is given tzinfo before the
\* comparison, so the comparison never raises.
check_active(row, t) ==
    IF ~row.is_active \/ row.end_date = NoTime THEN FALSE
    ELSE t < row.end_date

\* User.subscription is declared uselist=False: the row the relationship
\* loads is one of the user's rows, 0 when the user has none.
LoadedSubscription(user_id) ==
    IF SubscriptionsOf(user_id) = {} THEN { 0 } ELSE SubscriptionsOf(user_id)

has_active_subscription(loaded, t) ==
    IF loaded = 0 THEN FALSE ELSE check_active(subscriptions[loaded], t)

handle_private_chat(user_id, db_ok) ==
    /\ conv[user_id] = "MAIN_MENU"
    /\ IF ~db_ok
       THEN reply' = [user |-> user_id, kind |-> "error"]
       ELSE \E loaded \in LoadedSubscription(user_id) :
              reply' = [user |-> user_id,
                        kind |-> IF /\ user_id \in DOMAIN profiles
                                    /\ has_active_subscription(loaded, now)
                                 THEN "private_link"
                                 ELSE "need_subscription"]
    /\ UNCHANGED << bot_settings, profiles, conv, user_data_temp >>
    /\ UNCHANGED << payvars, group_conv, channel_memberships >>

\* Both users have registered through the conversation, each with a
\* contact number of their own, and are in the main menu.
RegisteredRow(user_id) ==
    [f \in SeqElems(fields) \cup { "consent_given", "consent_date" } |->
       IF f = "consent_given" THEN TRUE
       ELSE IF f = "consent_date" THEN StartTime
       ELSE IF f = "full_name" THEN << "A", " ", "B" >>
       ELSE IF f = "contact_number"
       THEN (IF user_id = 1 THEN Phone1 ELSE Phone2)
       ELSE << "x" >>]

InitChat ==
    /\ now = StartTime
    /\ ticks = 0
    /\ dbNaive \in BOOLEAN
    /\ users = [u \in Users |->
                  [is_in_paid_channel |-> FALSE, paid_channel_join_date |-> NoTime]]
    /\ payments = << >>
    /\ subscriptions = << >>
    /\ jar = {}
    /\ req = IdleReq
    /\ waiting = {}
    /\ response = NoResponse
    /\ sweep = IdleSweep
    /\ adminOps = 0
    /\ grantCalls = [u \in Users |-> 0]
    /\ reconciled = {}
    /\ prevRevoked = {}
    /\ vin = NoStr
    /\ vout = << "unset" >>
    /\ bot_settings = << >>
    /\ profiles = [u \in Users |-> RegisteredRow(u)]
    /\ conv = [u \in Users |-> "MAIN_MENU"]
    /\ group_conv = [u \in Users |-> "END"]
    /\ channel_memberships = << >>
    /\ user_data_temp = << >>
    /\ reply = [user |-> 2, kind |-> "registered"]

NextChat ==
    \/ ticks < MaxSweepTicks /\ Tick /\ History /\ UNCHANGED botvars
    \/ /\ adminOps < MaxLedgerOps
       /\ \E u \in Users, d \in CreateDays :
            create_subscription(u, d, SUBSCRIPTION_PRICE)
       /\ History /\ UNCHANGED botvars
    \/ /\ adminOps < MaxLedgerOps
       /\ \E s \in 1 .. Len(subscriptions) : cancel_subscription(s)
       /\ History /\ UNCHANGED botvars
    \/ \E u \in Users, db_ok \in BOOLEAN : handle_private_chat(u, db_ok)

SpecChat == InitChat /\ [][NextChat]_vars

\* Row s is currently entitling: is_active and now before end_date.
Entitling(s) == subscriptions[s].is_active /\ now < subscriptions[s].end_date

(***************************************************************************)
(* C18.  A user is treated as entitled (has_active_subscription is true,   *)
(* and the bot hands out the private-chat link) if and only if the user's  *)
(* subscription has is_active = true and now is before end_date; a user    *)
(* with no subscription, with is_active = false, or with end_date not      *)
(* after now is never shown the private-chat link.  (For a user with       *)
(* several rows "the user's subscription" is the row the relationship      *)
(* loads: the link needs an entitling row, and is certain when every row   *)
(* of the user is entitling.)                                              *)
(***************************************************************************)
C18_LinkIffEntitling ==
    [][ \A u \in Users, db_ok \in BOOLEAN :
          handle_private_chat(u, db_ok)
            => LET rows == SubscriptionsOf(u)
               IN  /\ reply'.kind = "private_link"
                        => db_ok /\ \E s \in rows : Entitling(s)
                   /\ db_ok /\ rows # {} /\ (\A s \in rows : Entitling(s))
                        => reply'.kind = "private_link"
      ]_vars

\* The link has just been handed to a user whose only subscription is
\* active and, after the clock has moved, still not over.
C18_Witness ==
    \E u \in Users :
        /\ reply = [user |-> u, kind |-> "private_link"]
        /\ Cardinality(SubscriptionsOf(u)) = 1
        /\ \A s \in SubscriptionsOf(u) : Entitling(s)
        /\ now > StartTime

(***************************************************************************)
(* C21.  Sweeps never overlap: a new sweep (notification pass, then        *)
(* revocation pass) starts only after the previous sweep has fully         *)
(* completed, including all of its per-row external calls and its commit.  *)
(* A sweep starts when its notification pass runs; at that moment the      *)
(* previous sweep has made its call for every row it selected, has passed  *)
(* its commit and has slept its hour.                                      *)
(***************************************************************************)
SweepStarts == sweep'.pc = "select" /\ sweep' # sweep

SweepCompleted(sw) ==
    /\ sw.pc = "idle"
    /\ Len(sw.calls) = Len(sw.selected)
    /\ sw.idx = Len(sw.selected) + 1
    /\ sw.removed_count = Cardinality(sw.dirty)

C21_SweepsNeverOverlap ==
    [][ SweepStarts
          => /\ SweepCompleted(sweep)
             /\ now >= sweep.wake
             /\ sweep'.count = sweep.count
      ]_vars

\* A second sweep has started after a first one that selected rows, made
\* its calls and committed a revocation.
C21_Witness ==
    /\ sweep.pc = "select"
    /\ sweep.count >= 1
    /\ prevRevoked # {}

(***************************************************************************)
(* C27.  A failure of an outbound channel call never blocks the ledger     *)
(* commit it accompanies: in the revocation pass, an expired active        *)
(* subscription whose channel-revoke call fails is still committed as      *)
(* is_active = false by that sweep.  Stated at the sweep's commit: every   *)
(* row the pass selected and called, whatever the outcome of its call, is  *)
(* inactive in the ledger after the commit.                                *)
(***************************************************************************)
C27_FailedRevokeStillCommitted ==
    [][ sweep_commit
          => \A i \in 1 .. Len(sweep.calls) :
                subscriptions'[sweep.calls[i]].is_active = FALSE
      ]_vars

(***************************************************************************)
(* C28.  In one notification pass, for each lead time in (7, 3, 1) exactly *)
(* one reminder is sent for each subscription with is_active = true whose  *)
(* end_date lies in the calendar day that starts at midnight of (now +     *)
(* lead time days), and none for any other subscription; the pass keeps no *)
(* record, so every further sweep on the same day sends the same reminders *)
(* again.                                                                  *)
(***************************************************************************)
LeadTimes == { 7, 3, 1 }

DueOn(s, lead, t) ==
    /\ subscriptions[s].is_active
    /\ Midnight(subscriptions[s].end_date) = Midnight(t + lead * Day)

C28_OneReminderPerMatch ==
    [][ sweep_notify
          => /\ \A s \in 1 .. Len(subscriptions), lead \in LeadTimes :
                   CopiesIn(<< s, lead >>, sweep'.sent)
                     = IF DueOn(s, lead, now) THEN 1 ELSE 0
             /\ BagToSet(sweep'.sent)
                   \subseteq (1 .. Len(subscriptions)) \X LeadTimes
             /\ \A p \in BagToSet(sweep.sent) :
                   DueOn(p[1], p[2], now) => CopiesIn(p, sweep'.sent) = 1
      ]_vars

\* A second pass on the day of the first one has sent again the reminder
\* the first one sent.
C28_Witness ==
    /\ sweep.pc = "select"
    /\ sweep.count >= 1
    /\ Midnight(sweep.now) = Midnight(now)
    /\ sweep.sent # EmptyBag
    /\ sweep.sent = sweep.prev_sent

(***************************************************************************)
(* C23.  Admin activate and admin deactivate commit the ledger change      *)
(* first and treat the channel call as best effort: if the channel-grant   *)
(* call fails during activate, the subscription is still committed as      *)
(* is_active = true with start_date = now and end_date = now + 30 days; if *)
(* the channel-revoke call fails during deactivate, the subscription is    *)
(* still committed as is_active = false.                                   *)
(***************************************************************************)
C23_AdminLedgerFirst ==
    [][ \A s \in 1 .. Len(subscriptions) :
          /\ \A o \in GrantOutcomes :
                activate_subscription(s, o)
                  => /\ subscriptions'[s].is_active = TRUE
                     /\ subscriptions'[s].start_date = now
                     /\ subscriptions'[s].end_date = now + 30 * Day
          /\ \A o \in RevokeOutcomes :
                deactivate_subscription(s, o)
                  => subscriptions'[s].is_active = FALSE
      ]_vars

(***************************************************************************)
(* C24.  In every reachable state, every Subscription with both dates set  *)
(* has end_date strictly after start_date, after any sequence of payment   *)
(* reconciliation, admin create, admin extend, admin activate, deactivate, *)
(* cancel and sweep operations.                                            *)
(***************************************************************************)
C24_EndAfterStart ==
    \A s \in 1 .. Len(subscriptions) :
        subscriptions[s].start_date # NoTime /\ subscriptions[s].end_date # NoTime
          => subscriptions[s].end_date > subscriptions[s].start_date

\* A payment has been reconciled, a sweep has committed a revocation, and
\* a row carries a start date written after the clock moved (by an
\* activation or by a reconciliation that restarted it).
C24_Witness ==
    /\ reconciled # {}
    /\ sweep.count >= 1
    /\ prevRevoked # {}
    /\ \E s \in 1 .. Len(subscriptions) : subscriptions[s].start_date > StartTime

(***************************************************************************)
(* C25.  In every reachable state each User has at most one Subscription   *)
(* row, after any sequence of payment reconciliations and admin            *)
(* create / extend / activate operations.                                  *)
(***************************************************************************)
C25_AtMostOneRowPerUser ==
    \A u \in Users : Cardinality(SubscriptionsOf(u)) <= 1

(***************************************************************************)
(* C26.  Each transition of a Payment to success is followed by exactly    *)
(* one channel-grant attempt for the payment's owner, and that attempt     *)
(* starts only after the Subscription update has been committed; no grant  *)
(* attempt is made when the redirect finds no matching pending payment.    *)
(* Stated over the counters of the payment flow: once a redirect has been  *)
(* answered, every user has had as many grant attempts as payments turned  *)
(* success; while a redirect is being handled its own payment is the only  *)
(* one still owed its attempt; and the handler is at its grant step only   *)
(* for a payment whose subscription update is committed.                   *)
(***************************************************************************)
SuccessPayments(u) ==
    { i \in 1 .. Len(payments) :
        payments[i].user_id = u /\ payments[i].status = "success" }

C26_OneGrantPerSuccess ==
    /\ \A u \in Users :
          grantCalls[u] =
            Cardinality(SuccessPayments(u)
                          \ (IF req.pc = "idle" THEN {} ELSE { req.pay }))
    /\ req.pc = "grant" => req.pay \in reconciled

(***************************************************************************)
(* C22.  Concurrent reconciliations for the same user are serialized: when *)
(* two success redirects for two different pending payments of one user    *)
(* are processed in any interleaving, both payments end as success, the    *)
(* user ends with a single Subscription row, and its end_date reflects     *)
(* both durations (no lost update and no duplicate row).  Stated for a     *)
(* user who had no row before: once both redirects have passed the         *)
(* handler's lookup, the user's only row starts at the first redirect and  *)
(* ends two durations later.                                               *)
(***************************************************************************)
InFlight == (IF req.pc = "idle" THEN {} ELSE { req }) \cup waiting

BothRedirectsProcessed(u) ==
    /\ Len(payments) = 2
    /\ \A i \in 1 .. 2 : payments[i].user_id = u /\ payments[i].status = "success"
    /\ \A r \in InFlight : r.pc = "grant"

C22_ConcurrentReconciliationsSerialized ==
    \A u \in Users :
        BothRedirectsProcessed(u)
          => /\ Cardinality(SubscriptionsOf(u)) = 1
             /\ \A s \in SubscriptionsOf(u) :
                   /\ subscriptions[s].is_active
                   /\ subscriptions[s].end_date
                        = subscriptions[s].start_date + 2 * Duration

(***************************************************************************)
(* C29.  Any unhandled exception raised inside a conversation handler      *)
(* results in a generic error message to the user and forces that user's   *)
(* conversation to its terminal (ended) state, so the conversation is      *)
(* never left in a state whose scratch entry is missing or inconsistent    *)
(* with it.  The handler that raises here is handle_consent, whose read of *)
(* the scratch entry (line 349) is outside its try.                        *)
(***************************************************************************)
ConsentRaises(u, d) == IsAccept(d) /\ u \notin DOMAIN user_data_temp

MidFlow == { "FILLING_QUESTIONNAIRE", "WAITING_FOR_CONSENT" }

C29_UnhandledExceptionEndsConversation ==
    [][ \A u \in Users, d \in ConsentChoices, db_ok \in BOOLEAN :
          handle_consent(u, d, db_ok) /\ ConsentRaises(u, d)
            => /\ reply' = [user |-> u, kind |-> "generic_error"]
               /\ conv'[u] = "END"
               /\ conv'[u] \in MidFlow => u \in DOMAIN user_data_temp'
      ]_vars

(***************************************************************************)
(* C30.  A mid-flow event (a questionnaire answer or a consent choice)     *)
(* that arrives for a user with no scratch entry is handled as an          *)
(* idempotent no-op: the handler raises no unhandled error, creates or     *)
(* changes no User row, and creates no scratch entry.                      *)
(***************************************************************************)
HandledAsNoOp(u) ==
    /\ reply'.kind # "exception"
    /\ profiles' = profiles
    /\ u \notin DOMAIN user_data_temp'

C30_NoScratchIsNoOp ==
    [][ \A u \in Users :
          u \notin DOMAIN user_data_temp
            => /\ \A v \in AllAnswers, db_ok \in BOOLEAN :
                     handle_questionnaire(u, v, db_ok) => HandledAsNoOp(u)
               /\ \A d \in ConsentChoices, db_ok \in BOOLEAN :
                     handle_consent(u, d, db_ok) => HandledAsNoOp(u)
      ]_vars

(***************************************************************************)
(* C31.  The response of the success-redirect handler to a binding error   *)
(* does not depend on which error occurred: for two requests that differ   *)
(* only in the cause of failure (bad signature, expired token, or a valid  *)
(* token with no matching pending payment) the client-visible result is    *)
(* the same.  Stated in each state for every two cookie texts the handler  *)
(* could be sent there: when both are turned away, both get the same page. *)
(***************************************************************************)
TurnedAwayWith(c, kind) ==
    ENABLED (success_begin(c) /\ req' = req /\ response'.kind = kind)

ErrorPages == { "session_expired", "not_found" }

C31_BindingErrorsIndistinguishable ==
    req.pc = "idle"
      => \A c1, c2 \in RequestCookies : \A k1, k2 \in ErrorPages :
            TurnedAwayWith(c1, k1) /\ TurnedAwayWith(c2, k2) => k1 = k2

(***************************************************************************)
(* The payment menu's cancel button (app/bot/bot.py:642-667).  The handler *)
(* returns nothing, so the conversation stays in the payment menu.  The    *)
(* session commits when the `with` block is left (core/database.py:34-46). *)
(***************************************************************************)
payment_cancel(user_id, db_ok) ==
    /\ conv[user_id] = "PAYMENT_MENU"
    /\ IF ~db_ok
       THEN /\ reply' = [user |-> user_id, kind |-> "error"]
            /\ UNCHANGED subscriptions
       ELSE \E loaded \in LoadedSubscription(user_id) :
              IF user_id \in DOMAIN profiles /\ loaded # 0
              THEN /\ subscriptions' =
                        [subscriptions EXCEPT ![loaded].is_active = FALSE,
                                              ![loaded].auto_renewal = FALSE]
                   /\ reply' = [user |-> user_id, kind |-> "active_until_end_of_period"]
              ELSE UNCHANGED << subscriptions, reply >>
    /\ UNCHANGED << now, ticks, dbNaive, users, payments, jar, req, waiting, response,
                    sweep, adminOps, grantCalls, reconciled, vin, vout >>
    /\ UNCHANGED << bot_settings, profiles, conv, group_conv, channel_memberships,
                    user_data_temp >>

NextCancel ==
    \/ ticks < MaxSweepTicks /\ Tick /\ History /\ UNCHANGED botvars
    \/ /\ adminOps < MaxAdminOps
       /\ \E u \in Users, d \in CreateDays :
            create_subscription(u, d, SUBSCRIPTION_PRICE)
       /\ History /\ UNCHANGED botvars
    \/ \E u \in Users : handle_settings(u)
    \/ \E u \in Users, d \in SettingsChoices \ { "settings_refill" } :
         handle_settings_menu(u, d)
    \/ \E u \in Users : handle_payment_menu(u)
    \/ (\E u \in Users, db_ok \in BOOLEAN : payment_cancel(u, db_ok)) /\ History
    \/ \E u \in Users, db_ok \in BOOLEAN : handle_private_chat(u, db_ok)

SpecCancel == InitChat /\ [][NextCancel]_vars

(***************************************************************************)
(* C35.  After a user cancels the subscription from the payment menu, the  *)
(* subscription stays entitling until the end of the paid period, as the   *)
(* confirmation message promises: has_active_subscription remains true     *)
(* for that user while now is before end_date.                             *)
(***************************************************************************)
C35_CancelledStaysEntitlingUntilEnd ==
    [][ \A u \in Users :
          ( /\ conv[u] = "PAYMENT_MENU"
            /\ payment_cancel(u, TRUE)
            /\ reply'.kind = "active_until_end_of_period" )
            => \A s \in SubscriptionsOf(u) :
                 ( /\ has_active_subscription(s, now)
                   /\ subscriptions'[s] # subscriptions[s] )
                 => check_active(subscriptions'[s], now')
      ]_vars

(***************************************************************************)
(* The membership tracker (app/bot/bot.py:801-982).  A chat is its id and  *)
(* its public username (None for a chat without one).  The table has the   *)
(* columns of the ChannelMembership model (models.py:134-139); the model's  *)
(* constructor accepts no other keyword, so the rows the handlers try to   *)
(* build with username, full_name, channel_id, channel_title and status    *)
(* raise TypeError before anything is added, and the handlers' `except`    *)
(* logs it.  `status` and `updated_at` set on a loaded row are plain       *)
(* attributes and are not stored.                                          *)
(***************************************************************************)
\* str.replace('@', '')
ReplaceAt(str) == SelectSeq(str, LAMBDA ch : ch # "@")

FREE_CHANNEL_ID ==
    << "@", "t", "e", "s", "t", "p", "a", "i", "d", "0", "2", "0", "9", "2", "5" >>

FreeChat  == [id |-> 0 - 1001, username |-> ReplaceAt(FREE_CHANNEL_ID)]
OtherChat == [id |-> 0 - 1002, username |-> NoStr]
Chats     == { FreeChat, OtherChat }

\* bot.py:869 and 915
IsFreeChannel(chat) ==
    \/ PyStr(chat.id) = ReplaceAt(FREE_CHANNEL_ID)
    \/ chat.username = ReplaceAt(FREE_CHANNEL_ID)

\* query(ChannelMembership).filter(user_id ==, channel_type == 'free')
FreeMemberships(user_id) ==
    { m \in 1 .. Len(channel_memberships) :
        /\ channel_memberships[m].user_id = user_id
        /\ channel_memberships[m].channel_type = "free" }

\* bot.py:881-885 and 957-961: the loaded row is made current again.
Rejoined(m) ==
    [channel_memberships EXCEPT ![m].is_current = TRUE, ![m].joined_at = now]

\* handle_chat_member_update / handle_new_chat_members for a join
handle_user_joined_channel(chat, user_id, db_ok) ==
    /\ IF IsFreeChannel(chat) /\ db_ok /\ FreeMemberships(user_id) # {}
       THEN \E m \in FreeMemberships(user_id) : channel_memberships' = Rejoined(m)
       ELSE \* another chat, a failed query or commit, or the TypeError of
            \* the constructor at line 888
            UNCHANGED channel_memberships
    /\ UNCHANGED << bot_settings, profiles, conv, group_conv, user_data_temp, reply >>
    /\ UNCHANGED payvars

\* handle_chat_member_update / handle_left_chat_member for a leave
handle_user_left_channel(chat, user_id, db_ok) ==
    /\ IF IsFreeChannel(chat) /\ db_ok /\ FreeMemberships(user_id) # {}
       THEN \E m \in FreeMemberships(user_id) :
              channel_memberships' =
                [channel_memberships EXCEPT ![m].is_current = FALSE,
                                            ![m].left_at = now]
       ELSE UNCHANGED channel_memberships
    /\ UNCHANGED << bot_settings, profiles, conv, group_conv, user_data_temp, reply >>
    /\ UNCHANGED payvars

\* bot.py:936-982.  The approval is attempted for the chat of the request
\* whatever that chat is, and its failure is only logged; the row is then
\* looked up and written without a test of the chat.
handle_chat_join_request(chat, user_id, db_ok) ==
    /\ reply' = [user |-> user_id, kind |-> "approve_chat_join_request",
                 chat |-> chat.id]
    /\ IF db_ok /\ FreeMemberships(user_id) # {}
       THEN \E m \in FreeMemberships(user_id) : channel_memberships' = Rejoined(m)
       ELSE \* a failed query or commit, or the TypeError of the
            \* constructor at line 968
            UNCHANGED channel_memberships
    /\ UNCHANGED << bot_settings, profiles, conv, group_conv, user_data_temp >>
    /\ UNCHANGED payvars

NextTracker ==
    \/ ticks < MaxSweepTicks /\ Tick /\ History /\ UNCHANGED botvars
    \/ \E c \in Chats, u \in Users, db_ok \in BOOLEAN :
         handle_user_joined_channel(c, u, db_ok)
    \/ \E c \in Chats, u \in Users, db_ok \in BOOLEAN :
         handle_user_left_channel(c, u, db_ok)
    \/ \E c \in Chats, u \in Users, db_ok \in BOOLEAN :
         handle_chat_join_request(c, u, db_ok)

\* The tracker starts on an empty table, or on one that already holds a
\* user's row (the handlers themselves cannot add one).
ExistingMembership ==
    [user_id |-> 1, channel_type |-> "free", joined_at |-> StartTime,
     left_at |-> NoTime, is_current |-> TRUE]

InitTracker ==
    /\ now = StartTime
    /\ ticks = 0
    /\ dbNaive = TRUE
    /\ users = [u \in Users |->
                  [is_in_paid_channel |-> FALSE, paid_channel_join_date |-> NoTime]]
    /\ payments = << >>
    /\ subscriptions = << >>
    /\ jar = {}
    /\ req = IdleReq
    /\ waiting = {}
    /\ response = NoResponse
    /\ sweep = IdleSweep
    /\ adminOps = 0
    /\ grantCalls = [u \in Users |-> 0]
    /\ reconciled = {}
    /\ prevRevoked = {}
    /\ vin = NoStr
    /\ vout = << "unset" >>
    /\ bot_settings = << >>
    /\ profiles = << >>
    /\ conv = [u \in Users |-> "END"]
    /\ group_conv = [u \in Users |-> "END"]
    /\ channel_memberships \in { << >>, << ExistingMembership >> }
    /\ user_data_temp = << >>
    /\ reply = NoReply

SpecTracker == InitTracker /\ [][NextTracker]_vars

(***************************************************************************)
(* C32.  The Membership Tracker acts only on events of the configured free *)
(* channel: a join, leave or join-request event for any other chat creates *)
(* and changes no ChannelMembership row and triggers no join-request       *)
(* approval.                                                               *)
(***************************************************************************)
C32_OnlyFreeChannelEvents ==
    [][ \A c \in Chats, u \in Users, db_ok \in BOOLEAN :
          ~IsFreeChannel(c)
            /\ ( \/ handle_user_joined_channel(c, u, db_ok)
                 \/ handle_user_left_channel(c, u, db_ok)
                 \/ handle_chat_join_request(c, u, db_ok) )
            => /\ channel_memberships' = channel_memberships
               /\ reply'.kind # "approve_chat_join_request"
      ]_vars

(***************************************************************************)
(* C33.  After any sequence of join and leave events for the free channel, *)
(* each user has at most one ChannelMembership row of type free: a join    *)
(* for a user with no row inserts one row with is_current = true, a join   *)
(* for a user with a row sets is_current = true and refreshes joined_at in *)
(* place, and a leave sets is_current = false and left_at in place.        *)
(***************************************************************************)
FreeRowsAfter(u) ==
    { m \in 1 .. Len(channel_memberships') :
        /\ channel_memberships'[m].user_id = u
        /\ channel_memberships'[m].channel_type = "free" }

JoinRecorded(u) ==
    /\ Cardinality(FreeRowsAfter(u)) = 1
    /\ Len(channel_memberships')
         = Len(channel_memberships) + (IF FreeMemberships(u) = {} THEN 1 ELSE 0)
    /\ \A m \in FreeRowsAfter(u) :
          /\ channel_memberships'[m].is_current
          /\ channel_memberships'[m].joined_at = now

LeaveRecorded(u) ==
    /\ Len(channel_memberships') = Len(channel_memberships)
    /\ \A m \in FreeRowsAfter(u) :
          /\ ~channel_memberships'[m].is_current
          /\ channel_memberships'[m].left_at = now

C33_OneFreeRowPerUser ==
    \A u \in Users :
       /\ Cardinality(FreeMemberships(u)) <= 1
       /\ ~ENABLED (handle_user_joined_channel(FreeChat, u, TRUE) /\ ~JoinRecorded(u))
       /\ ~ENABLED (handle_user_left_channel(FreeChat, u, TRUE) /\ ~LeaveRecorded(u))

(***************************************************************************)
(* A renewal beside a sweep: the payment flow in the server's event loop,  *)
(* the sweep in its own thread (main.py:167-168, 171), an admin who put    *)
(* the row in place, and the clock.                                        *)
(***************************************************************************)
NextRenewal ==
    \/ ticks < MaxTicks /\ Tick /\ History /\ UNCHANGED botvars
    \/ /\ adminOps < MaxAdminOps
       /\ \E u \in Users, d \in CreateDays :
            create_subscription(u, d, SUBSCRIPTION_PRICE)
       /\ History /\ UNCHANGED botvars
    \/ Len(payments) < MaxLedgerPayments /\ (\E u \in Users : payment_page(u)) /\ History /\ UNCHANGED botvars
    \/ (\E c \in jar : success_begin(c)) /\ History /\ UNCHANGED botvars
    \/ success_reconcile /\ History /\ UNCHANGED botvars
    \/ (\E o \in GrantOutcomes : success_grant(o)) /\ History /\ UNCHANGED botvars
    \/ sweep.count < MaxLedgerSweeps /\ sweep_notify /\ History /\ UNCHANGED botvars
    \/ sweep_select /\ History /\ UNCHANGED botvars
    \/ (\E o \in RevokeOutcomes : sweep_row(o)) /\ History /\ UNCHANGED botvars
    \/ sweep_commit /\ History /\ UNCHANGED botvars

SpecRenewal == Init /\ [][NextRenewal]_vars

(***************************************************************************)
(* C36.  A renewal is never undone by a sweep already in flight: if a      *)
(* successful payment renews a subscription after a revocation pass has    *)
(* selected it as expired but before that pass writes and commits, then    *)
(* once both have finished the subscription is is_active = true with       *)
(* end_date after now and the user's paid-channel flags are not cleared.   *)
(***************************************************************************)
\* Rows the sweep selected as expired (end_date before the selection) that
\* a reconciled payment of their user has since given a later end_date.
RenewedSinceSelected ==
    { s \in SeqElems(sweep.selected) :
        /\ subscriptions[s].end_date > sweep.now
        /\ \E p \in reconciled : payments[p].user_id = subscriptions[s].user_id }

NextMembers ==
    \/ ticks < MaxTicks /\ Tick /\ History /\ UNCHANGED botvars
    \/ Len(payments) < MaxLedgerPayments /\ (\E u \in Users : payment_page(u)) /\ History /\ UNCHANGED botvars
    \/ (\E c \in jar : success_begin(c)) /\ History /\ UNCHANGED botvars
    \/ success_reconcile /\ History /\ UNCHANGED botvars
    \/ (\E o \in GrantOutcomes : success_grant(o)) /\ History /\ UNCHANGED botvars
    \/ /\ adminOps < MaxAdminOps
       /\ \E s \in 1 .. Len(subscriptions) : cancel_subscription(s)
       /\ History /\ UNCHANGED botvars
    \/ sweep.count < MaxSweeps /\ sweep_notify /\ History /\ UNCHANGED botvars
    \/ sweep_select /\ History /\ UNCHANGED botvars
    \/ (\E o \in RevokeOutcomes : sweep_row(o)) /\ History /\ UNCHANGED botvars
    \/ sweep_commit /\ History /\ UNCHANGED botvars

SpecMembers == Init /\ [][NextMembers]_vars

(***************************************************************************)
(* C37.  After a sweep in which every external call succeeds, no user has  *)
(* is_in_paid_channel = true without a currently entitling subscription    *)
(* (is_active = true and end_date after now); in particular this holds for *)
(* users whose subscription was cancelled from the payment menu or by the  *)
(* admin cancel operation.                                                 *)
(***************************************************************************)
\* The sweep that is about to commit made no failed call, no time has
\* passed since its selection, and no payment is being processed.
QuietSweepEnds ==
    /\ sweep.pc = "rows"
    /\ sweep.failed = {}
    /\ sweep.now = now
    /\ req.pc = "idle"
    /\ sweep_commit

EntitledAfter(u) ==
    \E s \in 1 .. Len(subscriptions') :
       /\ subscriptions'[s].user_id = u
       /\ subscriptions'[s].is_active
       /\ now' < subscriptions'[s].end_date

C37_SweepLeavesNoUnentitledMember ==
    [][ QuietSweepEnds
          => \A u \in Users : users'[u].is_in_paid_channel => EntitledAfter(u)
      ]_vars

(***************************************************************************)
(* C38.  Every User row created or overwritten by the conversation (the    *)
(* consent Accept, or a consented user's profile update) holds a complete, *)
(* validated answer set: all six questionnaire fields come from the user's *)
(* scratch answers, full_name has at least two whitespace-separated tokens *)
(* and contact_number matches the phone pattern; no row is written from an *)
(* empty or partially filled scratch entry.                                *)
(***************************************************************************)
RowWritten(u) ==
    /\ u \in DOMAIN profiles'
    /\ u \notin DOMAIN profiles \/ profiles'[u] # profiles[u]

CompleteAnswerSet(row) ==
    /\ \A f \in SeqElems(fields) : row[f] # << >>
    /\ SplitCount(row["full_name"]) >= 2
    /\ phone_pattern(row["contact_number"])

C38_RowsHoldCompleteAnswers ==
    [][ \A u \in Users :
          RowWritten(u)
            => /\ u \in DOMAIN user_data_temp
               /\ user_data_temp[u].step >= Len(fields) - 1
               /\ CompleteAnswerSet(profiles'[u])
      ]_vars

(***************************************************************************)
(* C39.  Whenever a conversation is in FillingQuestionnaire and the user's *)
(* scratch entry exists, its step index is between 0 and 5, so an incoming *)
(* answer always maps to one of the six fields; the step index reaches 6   *)
(* only in the handler call that leaves FillingQuestionnaire.              *)
(***************************************************************************)
Filling(u) ==
    \/ conv[u] = "FILLING_QUESTIONNAIRE"
    \/ group_conv[u] = "FILLING_QUESTIONNAIRE"

C39_StepIndexInRangeWhileFilling ==
    \A u \in Users :
       (Filling(u) /\ u \in DOMAIN user_data_temp)
         => user_data_temp[u].step \in 0 .. Len(fields) - 1

(***************************************************************************)
(* C34.  No failure inside a sweep stops the scheduler: after a sweep in   *)
(* which the notification pass, the revocation pass or an external call    *)
(* failed, the loop sleeps and later starts another sweep; and within one  *)
(* sweep a failure of the notification pass does not prevent the           *)
(* revocation pass from running.                                           *)
(***************************************************************************)
\* The sleep of one hour fits into what is left of the bounded clock.
SleepFits == ticks + 2 <= MaxSchedulerTicks

FailedSweepOver(c) ==
    /\ sweep.pc # "select" /\ sweep.pc # "rows"
    /\ sweep.failed # {}
    /\ sweep.count = c
    /\ SleepFits

NextSweepStarted(c) ==
    /\ sweep.pc = "select"
    /\ sweep.count = c
    /\ now >= sweep.wake

RevocationPassRan ==
    \/ sweep.pc = "rows"
    \/ "select" \in sweep.failed

C34_FailuresDoNotStopScheduler ==
    /\ \A c \in 1 .. MaxSweeps - 1 : FailedSweepOver(c) ~> NextSweepStarted(c)
    /\ (sweep.pc = "select" /\ "notify" \in sweep.failed) ~> RevocationPassRan

\* A sweep has started after one whose notification pass failed and whose
\* revocation pass then ran and failed at its commit.
C34_Witness ==
    /\ sweep.pc = "select"
    /\ sweep.count >= 1
    /\ now >= sweep.wake
    /\ { "notify", "commit" } \subseteq sweep.prev_failed

=============================================================================
